---- MODULE Spec2Model ----
(***************************************************************************)
(* KABUL rule-card print generator (src/main.py).                          *)
(*                                                                         *)
(* The generators are straight-line programs over a drawing canvas.  Each  *)
(* Python function that draws is an operator of the same name returning    *)
(* the sequence of canvas calls it issues, in order; every canvas call is  *)
(* one action on the canvas state (graphics state, state stack, page,      *)
(* the operations recorded on the document).                               *)
(*                                                                         *)
(* Lengths are exact multiples of 0.1 mm (the source multiplies by the     *)
(* point value of one millimetre; every length in the source is a multiple *)
(* of 0.1 mm).  Font sizes are tenths of a point, line widths hundredths.  *)
(* A string is the sequence of its characters; a character outside ASCII   *)
(* is written by name ("ARROW", "SPADE", "o_uml", ...).                    *)
(***************************************************************************)
EXTENDS Integers, Sequences, FiniteSets, TLC

VARIABLES
    config,       \* the geometry constants of the CONFIGURATION block
    LANGUAGE,     \* the configured language, "de" or "en"
    Fonts,        \* the class attributes Fonts.title / heading / body
    registered,   \* font families known to pdfmetrics
    phase,        \* position of main()
    gen_content,  \* generator local content: the record returned by get_content()
    shared_CONTENT, \* the module-level dict CONTENT as it is now
    returned,     \* the records get_content() has returned so far, with their callers
    prog,         \* canvas calls of the running generator, in program order
    pc,           \* index in prog of the next canvas call
    front_pos,    \* generator local: front positions
    back_pos,     \* generator local: mirrored positions
    gs,           \* canvas graphics state: fill, stroke, font, size, lw, clip
    stack,        \* canvas saveState stack
    page,         \* number of the page being drawn
    log,          \* calls executed on the current canvas, with the state they ran in
    files,        \* output paths written by Canvas.save
    raised        \* the exception that ended main(), <<>> while there is none

vars == <<config, raised, LANGUAGE, Fonts, registered, phase, gen_content, prog, pc, front_pos, back_pos,
          gs, stack, page, log, files, shared_CONTENT, returned>>

----------------------------------------------------------------------------
(* CONFIGURATION *)

mm == 10

(* the geometry constants as the source file sets them *)
DefaultConfig ==
    [ CARD_WIDTH |-> 63 * mm, CARD_HEIGHT |-> 88 * mm, BLEED |-> 3 * mm,
      CROP_LENGTH |-> 5 * mm, CROP_OFFSET |-> 3 * mm, CARD_SPACING |-> 8 * mm ]

CARD_WIDTH == config.CARD_WIDTH
CARD_HEIGHT == config.CARD_HEIGHT
BLEED == config.BLEED
CROP_LENGTH == config.CROP_LENGTH
CROP_OFFSET == config.CROP_OFFSET
CROP_LINE_WIDTH == 25
(* cards set closer together than a crop mark is long *)
CARD_SPACING_tight == 4 * mm
CARD_SPACING == config.CARD_SPACING
MARGIN == 35
CARD_WIDTH_BLEED == CARD_WIDTH + 2 * BLEED
CARD_HEIGHT_BLEED == CARD_HEIGHT + 2 * BLEED
PAGE_WIDTH == 210 * mm
PAGE_HEIGHT == 297 * mm

Colors ==
    [ bg |-> "#FFFFFF", text |-> "#1A1A1A", accent |-> "#C41E3A",
      heading |-> "#2D2D2D", red |-> "#C41E3A", black |-> "#1A1A1A",
      shape_light |-> "#F7F7F7", shape_medium |-> "#EEEEEE",
      shape_accent |-> "#FEF5F6", back_base |-> "#C41E3A",
      back_wave1 |-> "#A01830", back_wave2 |-> "#8A1428",
      back_circle |-> "#D42A4A", crop_mark |-> "#000000" ]

FontSizes ==
    [ title_size |-> 130, subtitle_size |-> 75, heading_size |-> 70,
      body_size |-> 62, number_size |-> 60 ]

DefaultFonts ==
    [ title |-> "CardFont-Bold", heading |-> "CardFont-Bold", body |-> "CardFont" ]

----------------------------------------------------------------------------
(* CARD CONTENT *)

CONTENT_de ==
  [ card_1_values |-> <<
        <<<<"J","o","k","e","r">>, <<"-","1"," ","P","u","n","k","t">>, <<>>, FALSE>>,
        <<<<"A","s","s">>, <<"1"," ","P","u","n","k","t">>, <<>>, FALSE>>,
        <<<<"2","EN_DASH","6">>, <<"K","a","r","t","e","n","w","e","r","t">>, <<>>, FALSE>>,
        <<<<"7",","," ","8">>, <<"K","a","r","t","e","n","w","e","r","t">>, <<<<"E","i","g","e","n","e"," ","a","n","s","e","h","e","n">>>>, FALSE>>,
        <<<<"9",","," ","1","0">>, <<"K","a","r","t","e","n","w","e","r","t">>, <<<<"F","r","e","m","d","e"," ","a","n","s","e","h","e","n">>>>, FALSE>>,
        <<<<"B","u","b","e",","," ","D","a","m","e">>, <<"1","0"," ","P","u","n","k","t","e">>, <<<<"T","a","u","s","c","h","e","n">>>>, FALSE>>,
        <<<<"K","o_uml","n","i","g"," ","SPADE","CLUB">>, <<"1","0"," ","P","u","n","k","t","e">>, <<<<"2","TIMES"," ","A","n","s","e","h","e","n"," ","&"," ","T","a","u","s","c","h","e","n","?">>>>, FALSE>>,
        <<<<"K","o_uml","n","i","g"," ","HEART","DIAMOND">>, <<"0"," ","P","u","n","k","t","e">>, <<>>, TRUE>> >>,
    card_1 |->
     [title |-> <<"K","a","r","t","e","n","w","e","r","t","e"," ","&"," ","A","k","t","i","o","n","e","n">>,
      type |-> "values_table",
      footer_sections |-> <<
          [heading |-> <<"Z","i","e","l">>, content |-> <<"N","i","e","d","r","i","g","s","t","e"," ","G","e","s","a","m","t","p","u","n","k","t","z","a","h","l">>],
          [heading |-> <<"E","n","d","e">>, content |-> <<"E","r","s","t","e","r"," ","S","p","i","e","l","e","r"," ",">"," ","1","0","0"," ","P","u","n","k","t","e">>] >>],
    card_2 |->
     [title |-> <<"S","p","i","e","l","a","b","l","a","u","f">>,
      type |-> "sections",
      sections |-> <<
          [heading |-> <<"S","e","t","u","p">>,
           content |-> <<
              <<"4"," ","K","a","r","t","e","n"," ","v","e","r","d","e","c","k","t"," ","i","m"," ","Q","u","a","d","r","a","t">>,
              <<"U","n","t","e","r","e"," ","2"," ","K","a","r","t","e","n"," ","e","i","n","m","a","l"," ","a","n","s","e","h","e","n">>,
              <<"E","r","s","t","e"," ","K","a","r","t","e"," ","v","o","m"," ","S","t","a","p","e","l"," ","a","u","f","d","e","c","k","e","n">> >>],
          [heading |-> <<"S","p","i","e","l","z","u","g">>,
           content |-> <<
              <<"1","."," ","K","a","r","t","e"," ","z","i","e","h","e","n"," ","v","o","n"," ","S","t","a","p","e","l"," ","o","."," ","A","b","l","a","g","e">>,
              <<"2","."," ","W","a_uml","h","l","e","n",":"," ","A","b","l","e","g","e","n",","," ","E","r","s","e","t","z","e","n">>,
              <<" "," "," ","o","d","e","r"," ","K","a","r","t","e","n","a","k","t","i","o","n"," ","a","u","s","f","u_uml","h","r","e","n">> >>],
          [heading |-> <<"A","b","w","e","r","f","e","n">>,
           content |-> <<
              <<"G","l","e","i","c","h","e"," ","K","a","r","t","e"," ","w","i","e"," ","a","u","f"," ","d","e","r"," ","A","b","l","a","g","e","?">>,
              <<"ARROW"," ","E","i","g","e","n","e","/","f","r","e","m","d","e"," ","K","a","r","t","e"," ","d","r","a","u","f","s","c","h","m","e","i","eszett","e","n","!">>,
              <<"S","c","h","n","e","l","l","s","t","e","r"," ","g","e","w","i","n","n","t"," ","MIDDOT"," ","1","TIMES"," ","p","r","o"," ","A","b","w","e","r","f","e","n">> >>],
          [heading |-> <<"K","a","b","u","l">>,
           content |-> <<
              <<"B","e","i"," ","LE","4"," ","P","u","n","k","t","e","n",":"," ","K","a","b","u","l"," ","r","u","f","e","n">>,
              <<"ARROW"," ","L","o_uml","s","t"," ","l","e","t","z","t","e"," ","R","u","n","d","e"," ","a","u","s">> >>] >>],
    card_3 |->
     [title |-> <<"D","e","t","a","i","l","r","e","g","e","l","n">>,
      type |-> "sections",
      sections |-> <<
          [heading |-> <<"A","b","w","e","r","f","e","n","-","D","e","t","a","i","l","s">>,
           content |-> <<
              <<"A","u","c","h"," ","f","r","e","m","d","e"," ","K","a","r","t","e","n"," ","a","b","w","e","r","f","b","a","r">>,
              <<"E","i","g","e","n","e"," ","K","a","r","t","e"," ","a","l","s"," ","E","r","s","a","t","z"," ","g","e","b","e","n">>,
              <<"S","c","h","n","e","l","l","s","t","e","r"," ","g","e","w","i","n","n","t">>,
              <<"B","e","r","u_uml","h","r","t"," ","A","b","l","a","g","e"," ","="," ","g","u_uml","l","t","i","g">>,
              <<"Z","a_uml","h","l","t"," ","n","i","c","h","t"," ","a","l","s"," ","S","p","i","e","l","z","u","g">> >>],
          [heading |-> <<"K","a","r","t","e"," ","e","r","s","e","t","z","e","n">>,
           content |-> <<
              <<"S","o","f","o","r","t"," ","u","m","d","r","e","h","e","n"," ","&"," ","z","e","i","g","e","n">>,
              <<"N","i","c","h","t"," ","e","r","s","t"," ","a","n","s","c","h","a","u","e","n","!">> >>],
          [heading |-> <<"S","o","n","d","e","r","f","a_uml","l","l","e">>,
           content |-> <<
              <<"S","t","a","p","e","l"," ","l","e","e","r"," ","ARROW"," ","A","b","l","a","g","e"," ","m","i","s","c","h","e","n">>,
              <<"K","e","i","n","e"," ","K","a","r","t","e","n"," ","m","e","h","r"," ","ARROW"," ","K","a","b","u","l"," ","(","P","f","l","i","c","h","t",")">> >>] >>],
    card_4 |->
     [title |-> <<"S","t","r","a","f","e","n"," ","&"," ","R","e","g","e","l","n">>,
      type |-> "sections",
      sections |-> <<
          [heading |-> <<"S","t","r","a","f","e","n"," ","(","+","1"," ","K","a","r","t","e",")">>,
           content |-> <<
              <<"S","e","t","u","p",":"," ","K","a","r","t","e","n"," ","2","TIMES"," ","a","n","g","e","s","e","h","e","n">>,
              <<"F","a","l","s","c","h","e","s"," ","A","b","w","e","r","f","e","n">> >>],
          [heading |-> <<"K","a","b","u","l","-","S","t","r","a","f","e">>,
           content |-> <<
              <<"N","i","c","h","t"," ","n","i","e","d","r","i","g","s","t","e"," ","A","n","z","a","h","l"," ","o","d","e","r"," ",">","4"," ","P","u","n","k","t","e","?">>,
              <<"ARROW"," ","K","a","r","t","e","n","z","a","h","l"," ","v","e","r","d","o","p","p","e","l","t">>,
              <<"o","d","e","r">>,
              <<"ARROW"," ","N","a_uml","c","h","s","t","e"," ","R","u","n","d","e",":"," ","5"," ","K","a","r","t","e","n">> >>],
          [heading |-> <<"W","i","c","h","t","i","g">>,
           content |-> <<
              <<"K","a","b","u","l"," ","e","r","s","t"," ","a","b"," ","LE","4"," ","P","u","n","k","t","e"," ","r","u","f","b","a","r">>,
              <<"A","m"," ","E","n","d","e",":"," ","B","e","s","t","a_uml","t","i","g","u","n","g"," ","n","o_uml","t","i","g">>,
              <<"N","a","c","h"," ","A","b","w","e","r","f","e","n",":"," ","E","i","g","e","n","e","r"," ","Z","u","g"," ","m","o_uml","g","l","i","c","h">>,
              <<"K","a","r","t","e","n","a","k","t","i","o","n"," ","="," ","A","b","l","e","g","e","n"," ","+"," ","A","k","t","i","o","n">> >>],
          [heading |-> <<"G","l","e","i","c","h","s","t","a","n","d">>,
           content |-> <<
              <<"D","e","r",","," ","d","e","r"," ","K","a","b","u","l"," ","g","e","r","u","f","e","n"," ","h","a","t"," ","g","e","w","i","n","n","t">> >>] >>],
    back_title |-> <<"K","A","B","U","L">>,
    back_subtitle |-> <<"K","a","r","t","e","n","s","p","i","e","l">>,
    title_card_title |-> <<"K","A","B","U","L">>,
    title_card_subtitle |-> <<"S","p","i","e","l","r","e","g","e","l","n">>,
    github_url |-> <<"h","t","t","p","s",":","/","/","g","i","t","h","u","b",".","c","o","m","/","h","a","z","e","l","w","a","l","k","e","r","/","k","a","b","u","l","-","i","n","s","t","r","u","c","t","i","o","n","s">>,
    game_description |-> <<
        <<"K","A","B","U","L"," ","i","s","t"," ","e","i","n"," ","s","c","h","n","e","l","l","e","s"," ","K","a","r","t","e","n","s","p","i","e","l"," ","f","u_uml","r"," ","2","-","6"," ","S","p","i","e","l","e","r",",">>,
        <<"i","n","s","p","i","r","i","e","r","t"," ","v","o","n"," ","C","a","b","o",","," ","S","k","y","j","o"," ","o","d","e","r"," ","G","o","l","f","."," ","Z","i","e","l"," ","i","s","t"," ","e","s",","," ","d","i","e">>,
        <<"n","i","e","d","r","i","g","s","t","e"," ","P","u","n","k","t","z","a","h","l"," ","z","u"," ","e","r","r","e","i","c","h","e","n"," ","EN_DASH"," ","a","b","e","r"," ","V","o","r","s","i","c","h","t",":">>,
        <<"D","u"," ","k","e","n","n","s","t"," ","n","i","c","h","t"," ","a","l","l","e"," ","d","e","i","n","e"," ","K","a","r","t","e","n","!">>,
        <<>>,
        <<"M","e","r","k","e"," ","d","i","r"," ","d","e","i","n","e"," ","K","a","r","t","e","n",","," ","t","a","u","s","c","h","e"," ","c","l","e","v","e","r"," ","u","n","d"," ","r","u","f","e">>,
        <<"RAQUO","K","a","b","u","l","!","LAQUO",","," ","w","e","n","n"," ","d","u"," ","g","l","a","u","b","s","t"," ","z","u"," ","g","e","w","i","n","n","e","n",".">>,
        <<>>,
        <<"S","p","i","e","l","d","a","u","e","r",":"," ","c","a","."," ","1","5","-","2","0"," ","M","i","n","u","t","e","n">> >>,
    about_title |-> <<"U_uml","b","e","r"," ","d","a","s"," ","S","p","i","e","l">>,
    page_info |-> [
        4card_front |-> <<"V","o","r","d","e","r","s","e","i","t","e","n">>,
        4card_back |-> <<"R","u_uml","c","k","s","e","i","t","e","n">>,
        4card_edition |-> <<"R","e","g","e","l","k","a","r","t","e","n">>,
        2card_front |-> <<"V","o","r","d","e","r","s","e","i","t","e","n",":"," ","K","a","r","t","e","n","w","e","r","t","e"," ","|"," ","D","e","t","a","i","l","r","e","g","e","l","n">>,
        2card_back |-> <<"R","u_uml","c","k","s","e","i","t","e","n",":"," ","S","p","i","e","l","a","b","l","a","u","f"," ","|"," ","S","t","r","a","f","e","n">>,
        2card_edition |-> <<"K","o","m","p","a","k","t">>,
        title_front |-> <<"V","o","r","d","e","r","s","e","i","t","e">>,
        title_back |-> <<"R","u_uml","c","k","s","e","i","t","e">>,
        duplex_hint |-> <<"CW_ARROW"," ","D","u","p","l","e","x",":"," ","L","a","n","g","e"," ","K","a","n","t","e"," ","s","p","i","e","g","e","l","n">> ] ]

CONTENT_en ==
  [ card_1_values |-> <<
        <<<<"J","o","k","e","r">>, <<"-","1"," ","P","o","i","n","t">>, <<>>, FALSE>>,
        <<<<"A","c","e">>, <<"1"," ","P","o","i","n","t">>, <<>>, FALSE>>,
        <<<<"2","EN_DASH","6">>, <<"F","a","c","e"," ","V","a","l","u","e">>, <<>>, FALSE>>,
        <<<<"7",","," ","8">>, <<"F","a","c","e"," ","V","a","l","u","e">>, <<<<"V","i","e","w"," ","o","w","n"," ","c","a","r","d">>>>, FALSE>>,
        <<<<"9",","," ","1","0">>, <<"F","a","c","e"," ","V","a","l","u","e">>, <<<<"V","i","e","w"," ","o","t","h","e","r","'","s"," ","c","a","r","d">>>>, FALSE>>,
        <<<<"J","a","c","k",","," ","Q","u","e","e","n">>, <<"1","0"," ","P","o","i","n","t","s">>, <<<<"S","w","a","p"," ","c","a","r","d","s">>>>, FALSE>>,
        <<<<"K","i","n","g"," ","SPADE","CLUB">>, <<"1","0"," ","P","o","i","n","t","s">>, <<<<"2","TIMES"," ","V","i","e","w"," ","&"," ","S","w","a","p","?">>>>, FALSE>>,
        <<<<"K","i","n","g"," ","HEART","DIAMOND">>, <<"0"," ","P","o","i","n","t","s">>, <<>>, TRUE>> >>,
    card_1 |->
     [title |-> <<"C","a","r","d"," ","V","a","l","u","e","s"," ","&"," ","A","c","t","i","o","n","s">>,
      type |-> "values_table",
      footer_sections |-> <<
          [heading |-> <<"G","o","a","l">>, content |-> <<"L","o","w","e","s","t"," ","t","o","t","a","l"," ","s","c","o","r","e">>],
          [heading |-> <<"E","n","d">>, content |-> <<"F","i","r","s","t"," ","p","l","a","y","e","r"," ",">"," ","1","0","0"," ","p","o","i","n","t","s">>] >>],
    card_2 |->
     [title |-> <<"G","a","m","e","p","l","a","y">>,
      type |-> "sections",
      sections |-> <<
          [heading |-> <<"S","e","t","u","p">>,
           content |-> <<
              <<"4"," ","c","a","r","d","s"," ","f","a","c","e","-","d","o","w","n"," ","i","n"," ","a"," ","s","q","u","a","r","e">>,
              <<"L","o","o","k"," ","a","t"," ","b","o","t","t","o","m"," ","2"," ","c","a","r","d","s"," ","o","n","c","e">>,
              <<"F","l","i","p"," ","f","i","r","s","t"," ","c","a","r","d"," ","f","r","o","m"," ","d","r","a","w"," ","p","i","l","e">> >>],
          [heading |-> <<"T","u","r","n">>,
           content |-> <<
              <<"1","."," ","D","r","a","w"," ","c","a","r","d"," ","f","r","o","m"," ","p","i","l","e"," ","o","r"," ","d","i","s","c","a","r","d">>,
              <<"2","."," ","C","h","o","o","s","e",":"," ","D","i","s","c","a","r","d",","," ","R","e","p","l","a","c","e">>,
              <<" "," "," ","o","r"," ","u","s","e"," ","c","a","r","d"," ","a","c","t","i","o","n">> >>],
          [heading |-> <<"S","m","a","s","h">>,
           content |-> <<
              <<"S","a","m","e"," ","c","a","r","d"," ","a","s"," ","o","n"," ","d","i","s","c","a","r","d"," ","p","i","l","e","?">>,
              <<"ARROW"," ","S","m","a","s","h"," ","y","o","u","r","/","o","t","h","e","r","'","s"," ","c","a","r","d"," ","o","n"," ","t","o","p","!">>,
              <<"F","a","s","t","e","s","t"," ","w","i","n","s"," ","MIDDOT"," ","1","TIMES"," ","p","e","r"," ","s","m","a","s","h">> >>],
          [heading |-> <<"K","a","b","u","l">>,
           content |-> <<
              <<"A","t"," ","LE","4"," ","p","o","i","n","t","s",":"," ","C","a","l","l"," ","K","a","b","u","l">>,
              <<"ARROW"," ","T","r","i","g","g","e","r","s"," ","f","i","n","a","l"," ","r","o","u","n","d">> >>] >>],
    card_3 |->
     [title |-> <<"D","e","t","a","i","l","e","d"," ","R","u","l","e","s">>,
      type |-> "sections",
      sections |-> <<
          [heading |-> <<"S","m","a","s","h"," ","D","e","t","a","i","l","s">>,
           content |-> <<
              <<"C","a","n"," ","s","m","a","s","h"," ","o","t","h","e","r"," ","p","l","a","y","e","r","s","'"," ","c","a","r","d","s"," ","t","o","o">>,
              <<"G","i","v","e"," ","o","w","n"," ","c","a","r","d"," ","a","s"," ","r","e","p","l","a","c","e","m","e","n","t">>,
              <<"F","a","s","t","e","s","t"," ","p","l","a","y","e","r"," ","w","i","n","s">>,
              <<"T","o","u","c","h","i","n","g"," ","d","i","s","c","a","r","d"," ","="," ","v","a","l","i","d">>,
              <<"D","o","e","s"," ","n","o","t"," ","c","o","u","n","t"," ","a","s"," ","t","u","r","n">> >>],
          [heading |-> <<"R","e","p","l","a","c","e"," ","C","a","r","d">>,
           content |-> <<
              <<"F","l","i","p"," ","i","m","m","e","d","i","a","t","e","l","y"," ","&"," ","s","h","o","w">>,
              <<"D","o","n","'","t"," ","p","e","e","k"," ","f","i","r","s","t","!">> >>],
          [heading |-> <<"S","p","e","c","i","a","l"," ","C","a","s","e","s">>,
           content |-> <<
              <<"D","r","a","w"," ","p","i","l","e"," ","e","m","p","t","y"," ","ARROW"," ","S","h","u","f","f","l","e"," ","d","i","s","c","a","r","d">>,
              <<"N","o"," ","c","a","r","d","s"," ","l","e","f","t"," ","ARROW"," ","K","a","b","u","l"," ","(","m","a","n","d","a","t","o","r","y",")">> >>] >>],
    card_4 |->
     [title |-> <<"P","e","n","a","l","t","i","e","s"," ","&"," ","R","u","l","e","s">>,
      type |-> "sections",
      sections |-> <<
          [heading |-> <<"P","e","n","a","l","t","i","e","s"," ","(","+","1"," ","C","a","r","d",")">>,
           content |-> <<
              <<"S","e","t","u","p",":"," ","L","o","o","k","e","d"," ","a","t"," ","c","a","r","d","s"," ","t","w","i","c","e">>,
              <<"W","r","o","n","g"," ","s","m","a","s","h">> >>],
          [heading |-> <<"K","a","b","u","l"," ","P","e","n","a","l","t","y">>,
           content |-> <<
              <<"N","o","t"," ","l","o","w","e","s","t"," ","o","r"," ",">","4"," ","p","o","i","n","t","s","?">>,
              <<"ARROW"," ","D","o","u","b","l","e"," ","y","o","u","r"," ","c","a","r","d"," ","c","o","u","n","t">>,
              <<"o","r">>,
              <<"ARROW"," ","N","e","x","t"," ","r","o","u","n","d",":"," ","5"," ","c","a","r","d","s">> >>],
          [heading |-> <<"I","m","p","o","r","t","a","n","t">>,
           content |-> <<
              <<"K","a","b","u","l"," ","o","n","l","y"," ","c","a","l","l","a","b","l","e"," ","a","t"," ","LE","4"," ","p","o","i","n","t","s">>,
              <<"E","n","d",":"," ","C","o","n","f","i","r","m","a","t","i","o","n"," ","r","e","q","u","i","r","e","d">>,
              <<"A","f","t","e","r"," ","s","m","a","s","h",":"," ","O","w","n"," ","t","u","r","n"," ","p","o","s","s","i","b","l","e">>,
              <<"C","a","r","d"," ","a","c","t","i","o","n"," ","="," ","D","i","s","c","a","r","d"," ","+"," ","A","c","t","i","o","n">> >>],
          [heading |-> <<"T","i","e">>,
           content |-> <<
              <<"K","a","b","u","l"," ","c","a","l","l","e","r"," ","w","i","n","s">> >>] >>],
    back_title |-> <<"K","A","B","U","L">>,
    back_subtitle |-> <<"C","a","r","d"," ","G","a","m","e">>,
    title_card_title |-> <<"K","A","B","U","L">>,
    title_card_subtitle |-> <<"G","a","m","e"," ","R","u","l","e","s">>,
    github_url |-> <<"h","t","t","p","s",":","/","/","g","i","t","h","u","b",".","c","o","m","/","h","a","z","e","l","w","a","l","k","e","r","/","k","a","b","u","l","-","i","n","s","t","r","u","c","t","i","o","n","s">>,
    game_description |-> <<
        <<"K","A","B","U","L"," ","i","s"," ","a"," ","f","a","s","t","-","p","a","c","e","d"," ","c","a","r","d"," ","g","a","m","e"," ","f","o","r"," ","2","-","6"," ","p","l","a","y","e","r","s",",">>,
        <<"i","n","s","p","i","r","e","d"," ","b","y"," ","C","a","b","o",","," ","S","k","y","j","o"," ","a","n","d"," ","G","o","l","f","."," ","T","h","e"," ","g","o","a","l"," ","i","s"," ","t","o"," ","a","c","h","i","e","v","e">>,
        <<"t","h","e"," ","l","o","w","e","s","t"," ","s","c","o","r","e"," ","EN_DASH"," ","b","u","t"," ","b","e","w","a","r","e",":">>,
        <<"Y","o","u"," ","d","o","n","'","t"," ","k","n","o","w"," ","a","l","l"," ","y","o","u","r"," ","c","a","r","d","s","!">>,
        <<>>,
        <<"M","e","m","o","r","i","z","e"," ","y","o","u","r"," ","c","a","r","d","s",","," ","s","w","a","p"," ","c","l","e","v","e","r","l","y",","," ","a","n","d"," ","c","a","l","l">>,
        <<"RAQUO","K","a","b","u","l","!","LAQUO"," ","w","h","e","n"," ","y","o","u"," ","t","h","i","n","k"," ","y","o","u","'","l","l"," ","w","i","n",".">>,
        <<>>,
        <<"D","u","r","a","t","i","o","n",":"," ","a","p","p","r","o","x","."," ","1","5","-","2","0"," ","m","i","n","u","t","e","s">> >>,
    about_title |-> <<"A","b","o","u","t"," ","t","h","e"," ","G","a","m","e">>,
    page_info |-> [
        4card_front |-> <<"F","r","o","n","t"," ","S","i","d","e","s">>,
        4card_back |-> <<"B","a","c","k"," ","S","i","d","e","s">>,
        4card_edition |-> <<"R","u","l","e"," ","C","a","r","d","s">>,
        2card_front |-> <<"F","r","o","n","t",":"," ","C","a","r","d"," ","V","a","l","u","e","s"," ","|"," ","D","e","t","a","i","l","e","d"," ","R","u","l","e","s">>,
        2card_back |-> <<"B","a","c","k",":"," ","G","a","m","e","p","l","a","y"," ","|"," ","P","e","n","a","l","t","i","e","s">>,
        2card_edition |-> <<"C","o","m","p","a","c","t">>,
        title_front |-> <<"F","r","o","n","t"," ","S","i","d","e">>,
        title_back |-> <<"B","a","c","k"," ","S","i","d","e">>,
        duplex_hint |-> <<"CW_ARROW"," ","D","u","p","l","e","x",":"," ","L","o","n","g"," ","E","d","g","e"," ","F","l","i","p">> ] ]

CONTENT == [ de |-> CONTENT_de, en |-> CONTENT_en ]

(* a reference to a dict: the dict's items, and whether it is the object   *)
(* the shared table holds                                                  *)
dict_of_table(items) == [ shared |-> TRUE, items |-> items ]

(* the same object instead of a copy *)
dict_same(d) == d

(* d.copy(): a new dict with the items of d (a shallow copy) *)
dict_copy(d) == [ shared |-> FALSE, items |-> d.items ]

(* d[key] = value *)
setitem(d, key, value) ==
    [ d EXCEPT !.items = [ f \in DOMAIN d.items \cup { key } |->
                             IF f = key THEN value ELSE d.items[f] ] ]

(* get_content() called while the shared table is table: the record it    *)
(* returns, and the table after the call.  The assignment of "values"      *)
(* writes to the dict card_1 refers to.                                    *)
get_content_call(table) ==
    LET lang == table[LANGUAGE]
        card_1 == setitem(dict_copy(dict_of_table(lang.card_1)), "values", lang.card_1_values)
    IN  [ ret |->
            [ CARD_1 |-> card_1.items, CARD_2 |-> lang.card_2, CARD_3 |-> lang.card_3,
              CARD_4 |-> lang.card_4, BACK_TITLE |-> lang.back_title,
              BACK_SUBTITLE |-> lang.back_subtitle,
              TITLE_CARD_TITLE |-> lang.title_card_title,
              TITLE_CARD_SUBTITLE |-> lang.title_card_subtitle,
              GITHUB_URL |-> lang.github_url,
              GAME_DESCRIPTION |-> lang.game_description,
              ABOUT_TITLE |-> lang.about_title, PAGE_INFO |-> lang.page_info ],
          CONTENT |->
            IF card_1.shared THEN [ table EXCEPT ![LANGUAGE].card_1 = card_1.items ]
            ELSE table ]

(* get_content(): the record handed to a generator.  CARD_1 is a copy of   *)
(* card_1 with the key "values" added; the other entries are shared.       *)
get_content == get_content_call(shared_CONTENT).ret

(* content = get_content() in generator g *)
GetContent(g) ==
    LET call == get_content_call(shared_CONTENT)
    IN  /\ gen_content' = call.ret
        /\ shared_CONTENT' = call.CONTENT
        /\ returned' = Append(returned, [ by |-> g, content |-> call.ret ])

----------------------------------------------------------------------------
(* String literals of the source and the string operations it uses *)

STR_KABUL == <<"K","A","B","U","L">>
STR_KABUL_SP == <<"K","A","B","U","L"," ">>
STR_TITLE_CARD == <<"T","i","t","l","e"," ","C","a","r","d">>
STR_BAR == <<" ","|"," ">>
STR_PAGE_1_2 == <<"P","a","g","e"," ","1","/","2">>
STR_PAGE_2_2 == <<"P","a","g","e"," ","2","/","2">>
STR_SIZE == <<"6","3","TIMES","8","8","m","m">>
STR_REPO == <<"g","i","t","h","u","b",".","c","o","m","/","h","a","z","e","l","w","a","l","k","e","r","/","k","a","b","u","l","-","i","n","s","t","r","u","c","t","i","o","n","s">>
STR_EQUALS == <<"=">>
STR_ARROW == <<"ARROW">>
STR_ARROW_SP == <<"ARROW"," ">>
STR_SP2 == <<" "," ">>
STR_SP3 == <<" "," "," ">>
GLYPHS_BLACK == <<"SPADE","CLUB">>
GLYPHS_RED == <<"HEART","DIAMOND">>

(* s.startswith(p) *)
startswith(s, p) == Len(s) >= Len(p) /\ SubSeq(s, 1, Len(p)) = p

(* least index >= from at which p occurs in s, 0 when there is none *)
Find(s, p, from) ==
    LET hits == { i \in from..(Len(s) - Len(p) + 1) : SubSeq(s, i, i + Len(p) - 1) = p }
    IN  IF hits = {} THEN 0 ELSE CHOOSE i \in hits : \A j \in hits : i <= j

(* p in s *)
Contains(s, p) == Find(s, p, 1) # 0

(* s.split(p)[0]: the part of s before the first occurrence of p *)
split_first(s, p) == IF Contains(s, p) THEN SubSeq(s, 1, Find(s, p, 1) - 1) ELSE s

(* s.strip(): leading and trailing whitespace removed *)
strip(s) ==
    LET ink == { i \in 1..Len(s) : s[i] # " " }
    IN  IF ink = {} THEN <<>>
        ELSE SubSeq(s, CHOOSE i \in ink : \A j \in ink : i <= j,
                       CHOOSE i \in ink : \A j \in ink : i >= j)

(* s[n:] *)
slice_from(s, n) == SubSeq(s, n + 1, Len(s))

(* Advance width of one character in a font, in thousandths of the font    *)
(* size (the metrics of the registered face).                              *)
Advance(ch, font) ==
    LET base == IF ch = " " THEN 278
                ELSE IF ch \in {"i", "l", ",", ".", "1"} THEN 250
                ELSE IF ch \in {"SPADE", "CLUB", "HEART", "DIAMOND", "ARROW"} THEN 800
                ELSE 556
        bold == IF font \in {"CardFont-Bold", "Helvetica-Bold"} THEN 60 ELSE 0
        face == IF font \in {"CardFont", "CardFont-Bold"} THEN 40 ELSE 0
    IN  base + bold + face

RECURSIVE SumAdvance(_, _)
SumAdvance(s, font) ==
    IF s = <<>> THEN 0 ELSE Advance(Head(s), font) + SumAdvance(Tail(s), font)

(* c.stringWidth(text, font, size), in 0.1 mm *)
stringWidth(text, font, size) == (SumAdvance(text, font) * size) \div 2835

----------------------------------------------------------------------------
(* Canvas calls.  A call is a record: op, numeric arguments a, text or     *)
(* name argument t, the source line src of the call, and the card of the   *)
(* generator (ordinal k, trim-box origin x, y) it is issued for; k = 0 is  *)
(* a call of the generator itself.                                         *)

Call(op, a, t, src) ==
    << [ op |-> op, a |-> a, t |-> t, src |-> src, k |-> 0, x |-> 0, y |-> 0 ] >>

saveState(src) == Call("saveState", <<>>, <<>>, src)
restoreState(src) == Call("restoreState", <<>>, <<>>, src)
setFillColor(col, src) == Call("setFillColor", <<>>, <<col>>, src)
setStrokeColor(col, src) == Call("setStrokeColor", <<>>, <<col>>, src)
setLineWidth(w, src) == Call("setLineWidth", <<w>>, <<>>, src)
setFont(name, size, src) == Call("setFont", <<size>>, <<name>>, src)
clipPath(x, y, w, h, src) == Call("clipPath", <<x, y, w, h>>, <<>>, src)
rect(x, y, w, h, src) == Call("rect", <<x, y, w, h>>, <<>>, src)
drawPath(pts, src) == Call("drawPath", pts, <<>>, src)
circle(x, y, r, src) == Call("circle", <<x, y, r>>, <<>>, src)
line(x1, y1, x2, y2, src) == Call("line", <<x1, y1, x2, y2>>, <<>>, src)
drawString(x, y, text, src) == Call("drawString", <<x, y>>, text, src)
drawCentredString(x, y, text, src) == Call("drawCentredString", <<x, y>>, text, src)
drawRightString(x, y, text, src) == Call("drawRightString", <<x, y>>, text, src)
renderPDF_draw(x, y, size, text, src) == Call("renderPDF_draw", <<x, y, size>>, text, src)
showPage(src) == Call("showPage", <<>>, <<>>, src)
save(src) == Call("save", <<>>, <<>>, src)

(* the calls of one card of a generator *)
ForCard(k, x, y, calls) ==
    [ i \in 1..Len(calls) |-> [ calls[i] EXCEPT !.k = k, !.x = x, !.y = y ] ]

----------------------------------------------------------------------------
(* DRAWING FUNCTIONS - Crop Marks *)

(* crop marks placed on the bleed box instead of the cut lines inside it *)
draw_crop_marks_on_bleed(x, y, width, height) ==
    LET cut_left == x
        cut_right == x + width
        cut_bottom == y
        cut_top == y + height
    IN  saveState(543)
        \o setStrokeColor(Colors.crop_mark, 544)
        \o setLineWidth(CROP_LINE_WIDTH, 545)
        \o line(cut_left - CROP_OFFSET - CROP_LENGTH, cut_top,
                cut_left - CROP_OFFSET, cut_top, 554)
        \o line(cut_left, cut_top + CROP_OFFSET,
                cut_left, cut_top + CROP_OFFSET + CROP_LENGTH, 556)
        \o line(cut_right + CROP_OFFSET, cut_top,
                cut_right + CROP_OFFSET + CROP_LENGTH, cut_top, 560)
        \o line(cut_right, cut_top + CROP_OFFSET,
                cut_right, cut_top + CROP_OFFSET + CROP_LENGTH, 562)
        \o line(cut_left - CROP_OFFSET - CROP_LENGTH, cut_bottom,
                cut_left - CROP_OFFSET, cut_bottom, 566)
        \o line(cut_left, cut_bottom - CROP_OFFSET - CROP_LENGTH,
                cut_left, cut_bottom - CROP_OFFSET, 568)
        \o line(cut_right + CROP_OFFSET, cut_bottom,
                cut_right + CROP_OFFSET + CROP_LENGTH, cut_bottom, 572)
        \o line(cut_right, cut_bottom - CROP_OFFSET - CROP_LENGTH,
                cut_right, cut_bottom - CROP_OFFSET, 574)
        \o restoreState(577)

draw_crop_marks(x, y, width, height) ==
    LET cut_left == x + BLEED
        cut_right == x + width - BLEED
        cut_bottom == y + BLEED
        cut_top == y + height - BLEED
    IN  saveState(543)
        \o setStrokeColor(Colors.crop_mark, 544)
        \o setLineWidth(CROP_LINE_WIDTH, 545)
        \o line(cut_left - CROP_OFFSET - CROP_LENGTH, cut_top,
                cut_left - CROP_OFFSET, cut_top, 554)
        \o line(cut_left, cut_top + CROP_OFFSET,
                cut_left, cut_top + CROP_OFFSET + CROP_LENGTH, 556)
        \o line(cut_right + CROP_OFFSET, cut_top,
                cut_right + CROP_OFFSET + CROP_LENGTH, cut_top, 560)
        \o line(cut_right, cut_top + CROP_OFFSET,
                cut_right, cut_top + CROP_OFFSET + CROP_LENGTH, 562)
        \o line(cut_left - CROP_OFFSET - CROP_LENGTH, cut_bottom,
                cut_left - CROP_OFFSET, cut_bottom, 566)
        \o line(cut_left, cut_bottom - CROP_OFFSET - CROP_LENGTH,
                cut_left, cut_bottom - CROP_OFFSET, 568)
        \o line(cut_right + CROP_OFFSET, cut_bottom,
                cut_right + CROP_OFFSET + CROP_LENGTH, cut_bottom, 572)
        \o line(cut_right, cut_bottom - CROP_OFFSET - CROP_LENGTH,
                cut_right, cut_bottom - CROP_OFFSET, 574)
        \o restoreState(577)

----------------------------------------------------------------------------
(* DRAWING FUNCTIONS - Background *)

(* a wave: moveTo, curveTo, lineTo, lineTo, close *)
wave(x0, y0, c1x, c1y, c2x, c2y, ex, ey, l1x, l1y, l2x, l2y) ==
    <<x0, y0, c1x, c1y, c2x, c2y, ex, ey, l1x, l1y, l2x, l2y>>

draw_front_background(x, y) ==
    LET draw_x == x - BLEED
        draw_y == y - BLEED
        draw_width == CARD_WIDTH + 2 * BLEED
        draw_height == CARD_HEIGHT + 2 * BLEED
    IN  setFillColor(Colors.bg, 605)
        \o rect(draw_x, draw_y, draw_width, draw_height, 606)
        \o saveState(609)
        \o setFillColor(Colors.shape_light, 620)
        \o drawPath(wave(draw_x, y + 25*mm, x + 20*mm, y + 35*mm, x + 35*mm, y + 50*mm,
                         draw_x + draw_width, y + 60*mm,
                         draw_x + draw_width, draw_y, draw_x, draw_y), 621)
        \o restoreState(622)
        \o saveState(625)
        \o setFillColor(Colors.shape_medium, 636)
        \o drawPath(wave(draw_x, y + 15*mm, x + 25*mm, y + 22*mm, x + 40*mm, y + 35*mm,
                         draw_x + draw_width, y + 45*mm,
                         draw_x + draw_width, draw_y, draw_x, draw_y), 637)
        \o restoreState(638)
        \o saveState(641)
        \o setFillColor(Colors.shape_accent, 642)
        \o circle(x + 50*mm, y + 20*mm, 12*mm, 643)
        \o restoreState(644)
        \o setFillColor(Colors.accent, 647)
        \o rect(draw_x, y + CARD_HEIGHT - 35, draw_width, 35 + BLEED, 648)

(* the red waves and circle shared by the back and the title cover *)
red_waves(x, y, s1, s2, s3, s4, s5, s6, s7, s8, s9, s10) ==
    LET draw_x == x - BLEED
        draw_y == y - BLEED
        draw_width == CARD_WIDTH + 2 * BLEED
        draw_height == CARD_HEIGHT + 2 * BLEED
    IN  setFillColor(Colors.back_base, s1)
        \o rect(draw_x, draw_y, draw_width, draw_height, s1 + 1)
        \o saveState(s2)
        \o setFillColor(Colors.back_wave1, s3)
        \o drawPath(wave(draw_x, y + 30*mm, x + 20*mm, y + 40*mm, x + 40*mm, y + 55*mm,
                         draw_x + draw_width, y + 65*mm,
                         draw_x + draw_width, draw_y, draw_x, draw_y), s3 + 1)
        \o restoreState(s4)
        \o saveState(s5)
        \o setFillColor(Colors.back_wave2, s6)
        \o drawPath(wave(draw_x, y + 18*mm, x + 25*mm, y + 25*mm, x + 45*mm, y + 38*mm,
                         draw_x + draw_width, y + 48*mm,
                         draw_x + draw_width, draw_y, draw_x, draw_y), s6 + 1)
        \o restoreState(s7)
        \o saveState(s8)
        \o setFillColor(Colors.back_circle, s9)
        \o circle(x + 50*mm, y + 22*mm, 10*mm, s9 + 1)
        \o restoreState(s10)

draw_back_background(x, y, content) ==
    red_waves(x, y, 663, 667, 674, 676, 679, 686, 688, 691, 692, 694)
    \o setFillColor(Colors.bg, 697)
    \o setFont(Fonts.title, 180, 698)
    \o drawCentredString(x + CARD_WIDTH \div 2, y + CARD_HEIGHT \div 2 + 5*mm,
                         content.BACK_TITLE, 699)
    \o setFont(Fonts.body, 80, 701)
    \o drawCentredString(x + CARD_WIDTH \div 2, y + CARD_HEIGHT \div 2 - 5*mm,
                         content.BACK_SUBTITLE, 702)

draw_title_card_background(x, y, content) ==
    red_waves(x, y, 717, 721, 728, 730, 733, 740, 742, 745, 746, 748)
    \o setFillColor(Colors.bg, 751)
    \o setFont(Fonts.title, 200, 752)
    \o drawCentredString(x + CARD_WIDTH \div 2, y + CARD_HEIGHT \div 2 + 8*mm,
                         content.TITLE_CARD_TITLE, 753)
    \o setFont(Fonts.body, 90, 756)
    \o drawCentredString(x + CARD_WIDTH \div 2, y + CARD_HEIGHT \div 2 - 4*mm,
                         content.TITLE_CARD_SUBTITLE, 757)

draw_title_card(x, y, content) ==
    saveState(762)
    \o clipPath(x - BLEED, y - BLEED, CARD_WIDTH_BLEED, CARD_HEIGHT_BLEED, 765)
    \o draw_title_card_background(x, y, content)
    \o restoreState(768)
    \o draw_crop_marks(x - BLEED, y - BLEED, CARD_WIDTH_BLEED, CARD_HEIGHT_BLEED)

(* the description loop of draw_title_card_back: blank lines only move the cursor *)
RECURSIVE description_lines(_, _, _, _)
description_lines(lines, i, x, text_y) ==
    IF i > Len(lines) THEN <<>>
    ELSE IF lines[i] = <<>>
         THEN description_lines(lines, i + 1, x, text_y - 2*mm)
         ELSE drawCentredString(x + CARD_WIDTH \div 2, text_y, lines[i], 808)
              \o description_lines(lines, i + 1, x, text_y - 32)

draw_title_card_back(x, y, content) ==
    LET draw_x == x - BLEED
        draw_y == y - BLEED
        draw_width == CARD_WIDTH + 2 * BLEED
        draw_height == CARD_HEIGHT + 2 * BLEED
        qr_size == 18 * mm
        qr_x == x + (CARD_WIDTH - qr_size) \div 2
        qr_y == y + 12*mm
    IN  setFillColor(Colors.bg, 787)
        \o rect(draw_x, draw_y, draw_width, draw_height, 788)
        \o setFillColor(Colors.accent, 791)
        \o rect(draw_x, y + CARD_HEIGHT - 35, draw_width, 35 + BLEED, 792)
        \o setFont(Fonts.title, 110, 795)
        \o setFillColor(Colors.text, 796)
        \o drawCentredString(x + CARD_WIDTH \div 2, y + CARD_HEIGHT - 12*mm,
                             content.ABOUT_TITLE, 797)
        \o setFont(Fonts.body, 60, 800)
        \o setFillColor(Colors.text, 801)
        \o description_lines(content.GAME_DESCRIPTION, 1, x, y + CARD_HEIGHT - 20*mm)
        \o renderPDF_draw(qr_x, qr_y, qr_size, content.GITHUB_URL, 824)
        \o setFont(Fonts.body, 45, 827)
        \o setFillColor(Colors.heading, 828)
        \o drawCentredString(x + CARD_WIDTH \div 2, y + 8*mm, STR_REPO, 829)

draw_title_card_back_with_marks(x, y, content) ==
    saveState(834)
    \o clipPath(x - BLEED, y - BLEED, CARD_WIDTH_BLEED, CARD_HEIGHT_BLEED, 837)
    \o draw_title_card_back(x, y, content)
    \o restoreState(840)
    \o draw_crop_marks(x - BLEED, y - BLEED, CARD_WIDTH_BLEED, CARD_HEIGHT_BLEED)

----------------------------------------------------------------------------
(* DRAWING FUNCTIONS - Content *)

draw_title(x, y, title, number) ==
    setFont(Fonts.title, FontSizes.title_size, 852)
    \o setFillColor(Colors.text, 853)
    \o drawCentredString(x + CARD_WIDTH \div 2, y + CARD_HEIGHT - 11*mm, STR_KABUL, 854)
    \o setFont(Fonts.body, FontSizes.subtitle_size, 857)
    \o setFillColor(Colors.heading, 858)
    \o drawCentredString(x + CARD_WIDTH \div 2, y + CARD_HEIGHT - 165, title, 859)
    \o setFont(Fonts.body, FontSizes.number_size, 862)
    \o setFillColor(Colors.accent, 863)
    \o drawRightString(x + CARD_WIDTH - MARGIN - 5, y + MARGIN + 1*mm, number, 864)

(* column positions of draw_values_table *)
col_label(x) == x + MARGIN + 1*mm
col_equals(x) == x + 24*mm
col_value(x) == x + 27*mm

(* Python truth value of a row's action: None and "" are false *)
truthy(action) == action # <<>> /\ action[1] # <<>>

(* the glyph pair placed after the whole label instead of after its prefix *)
values_label_unsplit(label, x, content_y) ==
    IF Contains(label, GLYPHS_BLACK)
    THEN LET parts_before == split_first(label, GLYPHS_BLACK)
             symbol_x == col_label(x) + stringWidth(label, Fonts.body, FontSizes.body_size)
         IN  setFillColor(Colors.text, 882)
             \o drawString(col_label(x), content_y, parts_before, 883)
             \o setFillColor(Colors.black, 885)
             \o drawString(symbol_x, content_y, GLYPHS_BLACK, 886)
    ELSE IF Contains(label, GLYPHS_RED)
    THEN LET parts_before == split_first(label, GLYPHS_RED)
             symbol_x == col_label(x) + stringWidth(label, Fonts.body, FontSizes.body_size)
         IN  setFillColor(Colors.text, 889)
             \o drawString(col_label(x), content_y, parts_before, 890)
             \o setFillColor(Colors.red, 892)
             \o drawString(symbol_x, content_y, GLYPHS_RED, 893)
    ELSE setFillColor(Colors.text, 895)
         \o drawString(col_label(x), content_y, label, 896)

(* the label of one row: lines 880-896 *)
values_label(label, x, content_y) ==
    IF Contains(label, GLYPHS_BLACK)
    THEN LET parts_before == split_first(label, GLYPHS_BLACK)
             symbol_x == col_label(x) + stringWidth(parts_before, Fonts.body, FontSizes.body_size)
         IN  setFillColor(Colors.text, 882)
             \o drawString(col_label(x), content_y, parts_before, 883)
             \o setFillColor(Colors.black, 885)
             \o drawString(symbol_x, content_y, GLYPHS_BLACK, 886)
    ELSE IF Contains(label, GLYPHS_RED)
    THEN LET parts_before == split_first(label, GLYPHS_RED)
             symbol_x == col_label(x) + stringWidth(parts_before, Fonts.body, FontSizes.body_size)
         IN  setFillColor(Colors.text, 889)
             \o drawString(col_label(x), content_y, parts_before, 890)
             \o setFillColor(Colors.red, 892)
             \o drawString(symbol_x, content_y, GLYPHS_RED, 893)
    ELSE setFillColor(Colors.text, 895)
         \o drawString(col_label(x), content_y, label, 896)

(* the value right-aligned to a column edge, so that its start depends on its width *)
values_columns_right_aligned(value, x, content_y) ==
    setFillColor(Colors.text, 899)
    \o drawString(col_equals(x), content_y, STR_EQUALS, 900)
    \o drawString(x + 45*mm - stringWidth(value, Fonts.body, FontSizes.body_size),
                  content_y, value, 901)

(* "=" and the value of one row: lines 898-901 *)
values_columns(value, x, content_y) ==
    setFillColor(Colors.text, 899)
    \o drawString(col_equals(x), content_y, STR_EQUALS, 900)
    \o drawString(col_value(x), content_y, value, 901)

(* the action of one row, drawn on the next line: lines 904-908 *)
values_action(action, x, content_y) ==
    IF truthy(action)
    THEN setFillColor(Colors.heading, 906)
         \o drawString(col_value(x), content_y - 28, STR_ARROW_SP \o action[1], 907)
         \o setFillColor(Colors.text, 908)
    ELSE <<>>

(* the cursor stepped by the row increment only, action or not *)
values_next_y_ignores_action(action, content_y) == content_y - 32

(* the cursor after one row: lines 905 and 910 *)
values_next_y(action, content_y) ==
    IF truthy(action) THEN content_y - 28 - 32 ELSE content_y - 32

(* the body of the loop over card_data["values"], from row i on *)
RECURSIVE values_rows(_, _, _, _)
values_rows(values, i, x, content_y) ==
    IF i > Len(values) THEN [ calls |-> <<>>, content_y |-> content_y ]
    ELSE LET label == values[i][1]
             value == values[i][2]
             action == values[i][3]
             rest == values_rows(values, i + 1, x, values_next_y(action, content_y))
         IN  [ calls |-> values_label(label, x, content_y)
                         \o values_columns(value, x, content_y)
                         \o values_action(action, x, content_y)
                         \o rest.calls,
               content_y |-> rest.content_y ]

(* the loop over card_data["footer_sections"] *)
RECURSIVE values_footers(_, _, _, _)
values_footers(footers, i, x, content_y) ==
    IF i > Len(footers) THEN <<>>
    ELSE LET footer == footers[i]
             heading_width == stringWidth(footer.heading \o STR_SP2, Fonts.heading,
                                          FontSizes.heading_size)
         IN  setFont(Fonts.heading, FontSizes.heading_size, 915)
             \o setFillColor(Colors.heading, 916)
             \o drawString(col_label(x), content_y, footer.heading, 917)
             \o setFont(Fonts.body, FontSizes.body_size, 919)
             \o setFillColor(Colors.text, 920)
             \o drawString(col_label(x) + heading_width, content_y, footer.content, 922)
             \o values_footers(footers, i + 1, x, content_y - 35)

draw_values_table(x, y, card_data) ==
    LET content_y == y + CARD_HEIGHT - 21*mm
        rows == values_rows(card_data.values, 1, x, content_y)
    IN  setFont(Fonts.body, FontSizes.body_size, 876)
        \o rows.calls
        \o values_footers(card_data.footer_sections, 1, x, rows.content_y - 15)

(* an arrow line with the fill colour left on the accent colour *)
section_line_accent_kept(text, x, content_y) ==
    LET indent == IF startswith(text, STR_SP3) THEN 25 ELSE 0
        stripped == IF startswith(text, STR_SP3) THEN strip(text) ELSE text
    IN  IF startswith(stripped, STR_ARROW)
        THEN setFillColor(Colors.accent, 949)
             \o drawString(x + MARGIN + 1*mm + indent, content_y, STR_ARROW, 950)
             \o drawString(x + MARGIN + 1*mm + indent + 3*mm, content_y,
                           slice_from(stripped, 2), 952)
        ELSE drawString(x + MARGIN + 1*mm + indent, content_y, stripped, 954)

(* one content line of a section: lines 942-954 *)
section_line(text, x, content_y) ==
    LET indent == IF startswith(text, STR_SP3) THEN 25 ELSE 0
        stripped == IF startswith(text, STR_SP3) THEN strip(text) ELSE text
    IN  IF startswith(stripped, STR_ARROW)
        THEN setFillColor(Colors.accent, 949)
             \o drawString(x + MARGIN + 1*mm + indent, content_y, STR_ARROW, 950)
             \o setFillColor(Colors.text, 951)
             \o drawString(x + MARGIN + 1*mm + indent + 3*mm, content_y,
                           slice_from(stripped, 2), 952)
        ELSE drawString(x + MARGIN + 1*mm + indent, content_y, stripped, 954)

(* the loop over section["content"], from line i on *)
RECURSIVE section_lines(_, _, _, _)
section_lines(lines, i, x, content_y) ==
    IF i > Len(lines) THEN [ calls |-> <<>>, content_y |-> content_y ]
    ELSE LET rest == section_lines(lines, i + 1, x, content_y - 29)
         IN  [ calls |-> section_line(lines[i], x, content_y) \o rest.calls,
               content_y |-> rest.content_y ]

(* the loop over card_data["sections"], from section i on *)
RECURSIVE sections_from(_, _, _, _)
sections_from(sections, i, x, content_y) ==
    IF i > Len(sections) THEN <<>>
    ELSE LET section == sections[i]
             body == section_lines(section.content, 1, x, content_y - 33)
         IN  setFont(Fonts.heading, FontSizes.heading_size, 932)
             \o setFillColor(Colors.heading, 933)
             \o drawString(x + MARGIN + 1*mm, content_y, section.heading, 934)
             \o setFont(Fonts.body, FontSizes.body_size, 938)
             \o setFillColor(Colors.text, 939)
             \o body.calls
             \o sections_from(sections, i + 1, x, body.content_y - 12)

draw_sections(x, y, card_data) ==
    sections_from(card_data.sections, 1, x, y + CARD_HEIGHT - 21*mm)

(* the card front with its crop marks drawn while the clip is still on *)
draw_card_front_marks_clipped(x, y, card_data, number) ==
    saveState(964)
    \o clipPath(x - BLEED, y - BLEED, CARD_WIDTH_BLEED, CARD_HEIGHT_BLEED, 967)
    \o draw_front_background(x, y)
    \o draw_title(x, y, card_data.title, number)
    \o (IF card_data.type = "values_table"
        THEN draw_values_table(x, y, card_data)
        ELSE draw_sections(x, y, card_data))
    \o draw_crop_marks(x - BLEED, y - BLEED, CARD_WIDTH_BLEED, CARD_HEIGHT_BLEED)
    \o restoreState(971)

(* the card front with its crop marks drawn first, under the background *)
draw_card_front_marks_first(x, y, card_data, number) ==
    draw_crop_marks(x - BLEED, y - BLEED, CARD_WIDTH_BLEED, CARD_HEIGHT_BLEED)
    \o saveState(964)
    \o clipPath(x - BLEED, y - BLEED, CARD_WIDTH_BLEED, CARD_HEIGHT_BLEED, 967)
    \o draw_front_background(x, y)
    \o restoreState(971)
    \o draw_title(x, y, card_data.title, number)
    \o (IF card_data.type = "values_table"
        THEN draw_values_table(x, y, card_data)
        ELSE draw_sections(x, y, card_data))

(* the card front with the clipped background never popped *)
draw_card_front_unrestored(x, y, card_data, number) ==
    saveState(964)
    \o clipPath(x - BLEED, y - BLEED, CARD_WIDTH_BLEED, CARD_HEIGHT_BLEED, 967)
    \o draw_front_background(x, y)
    \o draw_title(x, y, card_data.title, number)
    \o (IF card_data.type = "values_table"
        THEN draw_values_table(x, y, card_data)
        ELSE draw_sections(x, y, card_data))
    \o draw_crop_marks(x - BLEED, y - BLEED, CARD_WIDTH_BLEED, CARD_HEIGHT_BLEED)

draw_card_front(x, y, card_data, number) ==
    saveState(964)
    \o clipPath(x - BLEED, y - BLEED, CARD_WIDTH_BLEED, CARD_HEIGHT_BLEED, 967)
    \o draw_front_background(x, y)
    \o restoreState(971)
    \o draw_title(x, y, card_data.title, number)
    \o (IF card_data.type = "values_table"
        THEN draw_values_table(x, y, card_data)
        ELSE draw_sections(x, y, card_data))
    \o draw_crop_marks(x - BLEED, y - BLEED, CARD_WIDTH_BLEED, CARD_HEIGHT_BLEED)

draw_card_back(x, y, content) ==
    saveState(988)
    \o clipPath(x - BLEED, y - BLEED, CARD_WIDTH_BLEED, CARD_HEIGHT_BLEED, 991)
    \o draw_back_background(x, y, content)
    \o restoreState(994)
    \o draw_crop_marks(x - BLEED, y - BLEED, CARD_WIDTH_BLEED, CARD_HEIGHT_BLEED)

----------------------------------------------------------------------------
(* PAGE LAYOUT *)

(* the 2x2 grid with the back page turned about both axes *)
calculate_4card_positions_rotated ==
    LET total_width == 2 * CARD_WIDTH_BLEED + CARD_SPACING
        total_height == 2 * CARD_HEIGHT_BLEED + CARD_SPACING
        start_x == (PAGE_WIDTH - total_width) \div 2 + BLEED
        start_y == (PAGE_HEIGHT - total_height) \div 2 + BLEED
    IN  [ front |-> << <<start_x, start_y + CARD_HEIGHT_BLEED + CARD_SPACING>>,
                       <<start_x + CARD_WIDTH_BLEED + CARD_SPACING,
                         start_y + CARD_HEIGHT_BLEED + CARD_SPACING>>,
                       <<start_x, start_y>>,
                       <<start_x + CARD_WIDTH_BLEED + CARD_SPACING, start_y>> >>,
          back |-> << <<start_x + CARD_WIDTH_BLEED + CARD_SPACING, start_y>>,
                      <<start_x, start_y>>,
                      <<start_x + CARD_WIDTH_BLEED + CARD_SPACING,
                        start_y + CARD_HEIGHT_BLEED + CARD_SPACING>>,
                      <<start_x, start_y + CARD_HEIGHT_BLEED + CARD_SPACING>> >> ]

calculate_4card_positions ==
    LET total_width == 2 * CARD_WIDTH_BLEED + CARD_SPACING
        total_height == 2 * CARD_HEIGHT_BLEED + CARD_SPACING
        start_x == (PAGE_WIDTH - total_width) \div 2 + BLEED
        start_y == (PAGE_HEIGHT - total_height) \div 2 + BLEED
    IN  [ front |-> << <<start_x, start_y + CARD_HEIGHT_BLEED + CARD_SPACING>>,
                       <<start_x + CARD_WIDTH_BLEED + CARD_SPACING,
                         start_y + CARD_HEIGHT_BLEED + CARD_SPACING>>,
                       <<start_x, start_y>>,
                       <<start_x + CARD_WIDTH_BLEED + CARD_SPACING, start_y>> >>,
          back |-> << <<start_x + CARD_WIDTH_BLEED + CARD_SPACING,
                        start_y + CARD_HEIGHT_BLEED + CARD_SPACING>>,
                      <<start_x, start_y + CARD_HEIGHT_BLEED + CARD_SPACING>>,
                      <<start_x + CARD_WIDTH_BLEED + CARD_SPACING, start_y>>,
                      <<start_x, start_y>> >> ]

(* the pair laid out from the left edge of the bleed block, not of the trim box *)
calculate_2card_positions_offcentre ==
    LET total_width == 2 * CARD_WIDTH_BLEED + CARD_SPACING
        start_x == (PAGE_WIDTH - total_width) \div 2
        start_y == (PAGE_HEIGHT - CARD_HEIGHT_BLEED) \div 2 + BLEED
    IN  [ front |-> << <<start_x, start_y>>,
                       <<start_x + CARD_WIDTH_BLEED + CARD_SPACING, start_y>> >>,
          back |-> << <<start_x + CARD_WIDTH_BLEED + CARD_SPACING, start_y>>,
                      <<start_x, start_y>> >> ]

calculate_2card_positions ==
    LET total_width == 2 * CARD_WIDTH_BLEED + CARD_SPACING
        start_x == (PAGE_WIDTH - total_width) \div 2 + BLEED
        start_y == (PAGE_HEIGHT - CARD_HEIGHT_BLEED) \div 2 + BLEED
    IN  [ front |-> << <<start_x, start_y>>,
                       <<start_x + CARD_WIDTH_BLEED + CARD_SPACING, start_y>> >>,
          back |-> << <<start_x + CARD_WIDTH_BLEED + CARD_SPACING, start_y>>,
                      <<start_x, start_y>> >> ]

(* the footer with the description ahead of the page count *)
info_description_first(edition, page_of, description) ==
    STR_KABUL_SP \o edition \o STR_BAR \o description \o STR_BAR \o page_of
    \o STR_BAR \o STR_SIZE

(* the footer line built by the f-strings of the generators *)
info(edition, page_of, description) ==
    STR_KABUL_SP \o edition \o STR_BAR \o page_of \o STR_BAR \o description
    \o STR_BAR \o STR_SIZE

(* the footer calls of a page: font, colour, the info line *)
page_footer(text, s, d) ==
    setFont(Fonts.body, 70, s)
    \o setFillColor("#999999", s + 1)
    \o drawString(15*mm, 10*mm, text, d)

----------------------------------------------------------------------------
(* PDF GENERATION *)

(* page 1 of the 4-card edition with the duplex hint next to its footer *)
page1_4card_with_hint(content, front) ==
    ForCard(1, front[1][1], front[1][2],
            draw_card_front(front[1][1], front[1][2], content.CARD_1, <<"1","/","4">>))
    \o ForCard(2, front[2][1], front[2][2],
            draw_card_front(front[2][1], front[2][2], content.CARD_2, <<"2","/","4">>))
    \o ForCard(3, front[3][1], front[3][2],
            draw_card_front(front[3][1], front[3][2], content.CARD_3, <<"3","/","4">>))
    \o ForCard(4, front[4][1], front[4][2],
            draw_card_front(front[4][1], front[4][2], content.CARD_4, <<"4","/","4">>))
    \o page_footer(info(content.PAGE_INFO.4card_edition, STR_PAGE_1_2,
                        content.PAGE_INFO.4card_front), 1088, 1091)
    \o drawRightString(PAGE_WIDTH - 15*mm, 10*mm, content.PAGE_INFO.duplex_hint, 1091)

(* page 1 of the 4-card edition: the loop over cards, then the footer *)
page1_4card(content, front) ==
    ForCard(1, front[1][1], front[1][2],
            draw_card_front(front[1][1], front[1][2], content.CARD_1, <<"1","/","4">>))
    \o ForCard(2, front[2][1], front[2][2],
            draw_card_front(front[2][1], front[2][2], content.CARD_2, <<"2","/","4">>))
    \o ForCard(3, front[3][1], front[3][2],
            draw_card_front(front[3][1], front[3][2], content.CARD_3, <<"3","/","4">>))
    \o ForCard(4, front[4][1], front[4][2],
            draw_card_front(front[4][1], front[4][2], content.CARD_4, <<"4","/","4">>))
    \o page_footer(info(content.PAGE_INFO.4card_edition, STR_PAGE_1_2,
                        content.PAGE_INFO.4card_front), 1088, 1091)

(* page 2 of the 4-card edition: the loop over range(4), then the footer *)
page2_4card(content, back) ==
    ForCard(5, back[1][1], back[1][2], draw_card_back(back[1][1], back[1][2], content))
    \o ForCard(6, back[2][1], back[2][2], draw_card_back(back[2][1], back[2][2], content))
    \o ForCard(7, back[3][1], back[3][2], draw_card_back(back[3][1], back[3][2], content))
    \o ForCard(8, back[4][1], back[4][2], draw_card_back(back[4][1], back[4][2], content))
    \o page_footer(info(content.PAGE_INFO.4card_edition, STR_PAGE_2_2,
                        content.PAGE_INFO.4card_back), 1098, 1101)
    \o drawRightString(PAGE_WIDTH - 15*mm, 10*mm, content.PAGE_INFO.duplex_hint, 1102)

(* the back page laid out on the front positions *)
generate_4card_edition_unmirrored(content, front, back) ==
    page1_4card(content, front) \o showPage(1092)
    \o page2_4card(content, front) \o save(1103)

generate_4card_edition(content, front, back) ==
    page1_4card(content, front) \o showPage(1092)
    \o page2_4card(content, back) \o save(1103)

(* the cards dealt to the pages in reading order: 1 and 2 in front *)
page1_2card_in_sequence(content, front) ==
    ForCard(1, front[1][1], front[1][2],
            draw_card_front(front[1][1], front[1][2], content.CARD_1, <<"1","a">>))
    \o ForCard(2, front[2][1], front[2][2],
            draw_card_front(front[2][1], front[2][2], content.CARD_2, <<"2","a">>))
    \o page_footer(info(content.PAGE_INFO.2card_edition, STR_PAGE_1_2,
                        content.PAGE_INFO.2card_front), 1131, 1134)

page1_2card(content, front) ==
    ForCard(1, front[1][1], front[1][2],
            draw_card_front(front[1][1], front[1][2], content.CARD_1, <<"1","a">>))
    \o ForCard(2, front[2][1], front[2][2],
            draw_card_front(front[2][1], front[2][2], content.CARD_3, <<"2","a">>))
    \o page_footer(info(content.PAGE_INFO.2card_edition, STR_PAGE_1_2,
                        content.PAGE_INFO.2card_front), 1131, 1134)

page2_2card(content, back) ==
    ForCard(3, back[1][1], back[1][2],
            draw_card_front(back[1][1], back[1][2], content.CARD_2, <<"1","b">>))
    \o ForCard(4, back[2][1], back[2][2],
            draw_card_front(back[2][1], back[2][2], content.CARD_4, <<"2","b">>))
    \o page_footer(info(content.PAGE_INFO.2card_edition, STR_PAGE_2_2,
                        content.PAGE_INFO.2card_back), 1141, 1144)
    \o drawRightString(PAGE_WIDTH - 15*mm, 10*mm, content.PAGE_INFO.duplex_hint, 1145)

(* the compact edition with the first page never finalized *)
generate_2card_edition_one_page(content, front, back) ==
    page1_2card(content, front)
    \o page2_2card(content, back) \o save(1146)

generate_2card_edition(content, front, back) ==
    page1_2card(content, front) \o showPage(1135)
    \o page2_2card(content, back) \o save(1146)

(* the single centred card of the title document *)
title_x == (PAGE_WIDTH - CARD_WIDTH) \div 2
title_y == (PAGE_HEIGHT - CARD_HEIGHT) \div 2

page1_title(content, x, y) ==
    ForCard(1, x, y, draw_title_card(x, y, content))
    \o page_footer(info(STR_TITLE_CARD, STR_PAGE_1_2, content.PAGE_INFO.title_front),
                   1176, 1178)

page2_title(content, x, y) ==
    ForCard(2, x, y, draw_title_card_back_with_marks(x, y, content))
    \o page_footer(info(STR_TITLE_CARD, STR_PAGE_2_2, content.PAGE_INFO.title_back),
                   1184, 1186)
    \o drawRightString(PAGE_WIDTH - 15*mm, 10*mm, content.PAGE_INFO.duplex_hint, 1187)

(* the title card written to its file after each page *)
generate_title_card_flush_each_page(content, x, y) ==
    page1_title(content, x, y) \o showPage(1179) \o save(1179)
    \o page2_title(content, x, y) \o save(1189)

generate_title_card(content, x, y) ==
    page1_title(content, x, y) \o showPage(1179)
    \o page2_title(content, x, y) \o save(1189)

----------------------------------------------------------------------------
(* The canvas *)

(* the graphics state of a new canvas and of a new page *)
InitGS ==
    [ fill |-> "#000000", stroke |-> "#000000", font |-> "Helvetica",
      size |-> 120, lw |-> 100, clip |-> <<>> ]

(* the families built into the PDF library *)
StandardFonts == { "Helvetica", "Helvetica-Bold" }

GenPhases == { "gen4", "gen2", "title" }
(* "table", "sections": draw_values_table, draw_sections run on their own *)
DrawPhases == GenPhases \cup { "table", "sections" }
Running == phase \in DrawPhases /\ pc <= Len(prog)
Returned == phase \in DrawPhases /\ pc > Len(prog)
Cur == prog[pc]

(* a call as recorded on the document: the call and the state it ran in *)
Logged(c) ==
    [ op |-> c.op, a |-> c.a, t |-> c.t, src |-> c.src, k |-> c.k, x |-> c.x,
      y |-> c.y, page |-> page, fill |-> gs.fill, stroke |-> gs.stroke,
      font |-> gs.font, size |-> gs.size, clip |-> gs.clip, depth |-> Len(stack) ]

Advance1 == pc' = pc + 1 /\ log' = Append(log, Logged(Cur))

Frame == UNCHANGED <<config, raised, LANGUAGE, Fonts, registered, phase, gen_content, prog, front_pos, back_pos,
                     shared_CONTENT, returned>>

SaveState ==
    /\ Running /\ Cur.op = "saveState"
    /\ stack' = Append(stack, gs)
    /\ Advance1 /\ Frame /\ UNCHANGED <<gs, page, files>>

RestoreState ==
    /\ Running /\ Cur.op = "restoreState"
    /\ stack # <<>>
    /\ gs' = stack[Len(stack)]
    /\ stack' = SubSeq(stack, 1, Len(stack) - 1)
    /\ Advance1 /\ Frame /\ UNCHANGED <<page, files>>

SetFillColor ==
    /\ Running /\ Cur.op = "setFillColor"
    /\ gs' = [gs EXCEPT !.fill = Cur.t[1]]
    /\ Advance1 /\ Frame /\ UNCHANGED <<stack, page, files>>

SetStrokeColor ==
    /\ Running /\ Cur.op = "setStrokeColor"
    /\ gs' = [gs EXCEPT !.stroke = Cur.t[1]]
    /\ Advance1 /\ Frame /\ UNCHANGED <<stack, page, files>>

SetLineWidth ==
    /\ Running /\ Cur.op = "setLineWidth"
    /\ gs' = [gs EXCEPT !.lw = Cur.a[1]]
    /\ Advance1 /\ Frame /\ UNCHANGED <<stack, page, files>>

SetFont ==
    /\ Running /\ Cur.op = "setFont"
    /\ Cur.t[1] \in registered
    /\ gs' = [gs EXCEPT !.font = Cur.t[1], !.size = Cur.a[1]]
    /\ Advance1 /\ Frame /\ UNCHANGED <<stack, page, files>>

(* setFont of a family pdfmetrics does not know raises; nothing in main()  *)
(* catches it, so the run ends there and the canvas is never saved.        *)
SetFontRaises ==
    /\ Running /\ Cur.op = "setFont"
    /\ Cur.t[1] \notin registered
    /\ phase' = "aborted"
    /\ raised' = [ where |-> phase, what |-> "KeyError" ]
    /\ UNCHANGED <<config, LANGUAGE, Fonts, registered, gen_content, shared_CONTENT, returned, prog, pc, front_pos, back_pos,
                   gs, stack, page, log, files>>

ClipPath ==
    /\ Running /\ Cur.op = "clipPath"
    /\ gs' = [gs EXCEPT !.clip = Cur.a]
    /\ Advance1 /\ Frame /\ UNCHANGED <<stack, page, files>>

(* a call that only paints *)
Paint(op) ==
    /\ Running /\ Cur.op = op
    /\ Advance1 /\ Frame /\ UNCHANGED <<gs, stack, page, files>>

Rect == Paint("rect")
DrawPath == Paint("drawPath")
Circle == Paint("circle")
Line == Paint("line")
DrawString == Paint("drawString")
DrawCentredString == Paint("drawCentredString")
DrawRightString == Paint("drawRightString")
RenderPDFDraw == Paint("renderPDF_draw")

(* showPage ends the page; the next page starts from the initial graphics state *)
ShowPage ==
    /\ Running /\ Cur.op = "showPage"
    /\ page' = page + 1
    /\ gs' = InitGS
    /\ Advance1 /\ Frame /\ UNCHANGED <<stack, files>>

(* save ends the last page and writes the file *)
OutputPath == [ gen4 |-> "kabul_cards_4card", gen2 |-> "kabul_cards_2card",
                title |-> "kabul_cards_title" ]

Save ==
    /\ Running /\ Cur.op = "save"
    /\ files' = files \cup { [ path |-> OutputPath[phase], lang |-> LANGUAGE,
                               pages |-> page, calls |-> Len(log),
                               complete |-> TRUE ] }
    /\ Advance1 /\ Frame /\ UNCHANGED <<gs, stack, page>>

(* save cannot write the file: the OSError leaves the generator and main(), *)
(* which catch nothing.  The library opens the file and then writes it, so  *)
(* the failure leaves either no file or a truncated one.                    *)
SaveRaises ==
    /\ Running /\ Cur.op = "save"
    /\ phase' = "aborted"
    /\ raised' = [ where |-> phase, what |-> "OSError" ]
    /\ \/ files' = files
       \/ files' = files \cup { [ path |-> OutputPath[phase], lang |-> LANGUAGE,
                                  pages |-> 0, calls |-> 0, complete |-> FALSE ] }
    /\ UNCHANGED <<config, LANGUAGE, Fonts, registered, gen_content, shared_CONTENT, returned, prog, pc, front_pos,
                   back_pos, gs, stack, page, log>>

----------------------------------------------------------------------------
(* main() *)

FontStatus == { "ok", "unusable" }

(* register_fonts(): env gives, for the platform's two files and the other *)
(* platform's two files, whether the file exists and loads.                *)
register_fonts(env) ==
    LET first == { n \in {"CardFont", "CardFont-Bold"} : env.primary[n] = "ok" }
        second == IF first = {}
                  THEN { n \in {"CardFont", "CardFont-Bold"} : env.fallback[n] = "ok" }
                  ELSE {}
        fonts_registered == first \cup second # {}
    IN  [ registered |-> first \cup second,
          Fonts |-> IF fonts_registered THEN Fonts
                    ELSE [ title |-> "Helvetica-Bold", heading |-> "Helvetica-Bold",
                           body |-> "Helvetica" ] ]

RegisterFonts ==
    /\ phase = "start"
    /\ \E p, f \in [ {"CardFont", "CardFont-Bold"} -> FontStatus ] :
          LET r == register_fonts([ primary |-> p, fallback |-> f ])
          IN  /\ registered' = registered \cup r.registered
              /\ Fonts' = r.Fonts
    /\ phase' = "fonts"
    /\ UNCHANGED <<config, raised, LANGUAGE, gen_content, shared_CONTENT, returned, prog, pc, front_pos, back_pos, gs, stack, page,
                   log, files>>

(* os.makedirs(OUTPUT_DIR, exist_ok=True) *)
MakeDirs ==
    /\ phase = "fonts"
    /\ phase' = "dirs"
    /\ UNCHANGED <<config, raised, LANGUAGE, Fonts, registered, gen_content, shared_CONTENT, returned, prog, pc, front_pos, back_pos,
                   gs, stack, page, log, files>>

(* a canvas that starts in the graphics state the last document ended in *)
NewCanvas_keeps_state ==
    /\ gs' = gs /\ stack' = <<>> /\ page' = 1 /\ log' = <<>> /\ pc' = 1

(* canvas.Canvas(output_path, pagesize=A4): an empty document *)
NewCanvas ==
    /\ gs' = InitGS /\ stack' = <<>> /\ page' = 1 /\ log' = <<>> /\ pc' = 1

Generate4Card ==
    /\ phase = "dirs"
    /\ phase' = "gen4"
    /\ LET pos == calculate_4card_positions
       IN  /\ front_pos' = pos.front
           /\ back_pos' = pos.back
           /\ GetContent("generate_4card_edition")
           /\ prog' = generate_4card_edition(get_content, pos.front, pos.back)
    /\ NewCanvas
    /\ UNCHANGED <<config, raised, LANGUAGE, Fonts, registered, files>>

Generate2Card ==
    /\ phase = "gen4" /\ Returned
    /\ phase' = "gen2"
    /\ LET pos == calculate_2card_positions
       IN  /\ front_pos' = pos.front
           /\ back_pos' = pos.back
           /\ GetContent("generate_2card_edition")
           /\ prog' = generate_2card_edition(get_content, pos.front, pos.back)
    /\ NewCanvas
    /\ UNCHANGED <<config, raised, LANGUAGE, Fonts, registered, files>>

GenerateTitleCard ==
    /\ phase = "gen2" /\ Returned
    /\ phase' = "title"
    /\ front_pos' = << <<title_x, title_y>> >>
    /\ back_pos' = << <<title_x, title_y>> >>
    /\ GetContent("generate_title_card")
    /\ prog' = generate_title_card(get_content, title_x, title_y)
    /\ NewCanvas
    /\ UNCHANGED <<config, raised, LANGUAGE, Fonts, registered, files>>

MainReturns ==
    /\ phase = "title" /\ Returned
    /\ phase' = "done"
    /\ UNCHANGED <<config, raised, LANGUAGE, Fonts, registered, gen_content, shared_CONTENT, returned, prog, pc, front_pos, back_pos,
                   gs, stack, page, log, files>>

(* what main() starts from, whatever the geometry *)
Start ==
    /\ LANGUAGE \in {"de", "en"}
    /\ Fonts = DefaultFonts
    /\ registered = StandardFonts
    /\ phase = "start"
    /\ gen_content = <<>> /\ prog = <<>> /\ pc = 1
    /\ front_pos = <<>> /\ back_pos = <<>>
    /\ gs = InitGS /\ stack = <<>> /\ page = 0 /\ log = <<>>
    /\ files = {} /\ raised = <<>>
    /\ shared_CONTENT = CONTENT /\ returned = <<>>

Init == config = DefaultConfig /\ Start

Next ==
    \/ RegisterFonts \/ MakeDirs
    \/ Generate4Card \/ Generate2Card \/ GenerateTitleCard \/ MainReturns
    \/ SaveState \/ RestoreState \/ SetFillColor \/ SetStrokeColor \/ SetLineWidth
    \/ SetFont \/ SetFontRaises \/ ClipPath
    \/ Rect \/ DrawPath \/ Circle \/ Line
    \/ DrawString \/ DrawCentredString \/ DrawRightString \/ RenderPDFDraw
    \/ ShowPage \/ Save \/ SaveRaises

Spec == Init /\ [][Next]_vars

----------------------------------------------------------------------------
(* main() run with the CONFIGURATION block edited: one geometry constant   *)
(* set to zero or to a negative length                                     *)

GeometryNames ==
    { "CARD_WIDTH", "CARD_HEIGHT", "BLEED", "CROP_LENGTH", "CROP_OFFSET", "CARD_SPACING" }

NonPositive == { 0, 0 - 1 * mm }

Configs ==
    { DefaultConfig }
    \cup { [ DefaultConfig EXCEPT ![n] = v ] : n \in GeometryNames, v \in NonPositive }

InitConfig == config \in Configs /\ Start

ConfigSpec == InitConfig /\ [][Next]_vars

----------------------------------------------------------------------------
(* draw_values_table on its own: any table of at most MaxRows rows, drawn  *)
(* at a card origin with either resolved font pair                         *)

MaxRows == 2

TableRows ==
    { << <<"K">>, <<"1">>, <<>>, FALSE >>,
      << <<"K","i","n","g">>, <<"1"," ","0">>, << <<"T">> >>, FALSE >>,
      << <<"K"," ","SPADE","CLUB">>, <<"1","0">>, << <<"T","a">> >>, FALSE >>,
      << <<"SPADE","CLUB">>, <<"1">>, <<>>, FALSE >>,
      << <<"K","i"," ","HEART","DIAMOND">>, <<"0">>, <<>>, TRUE >>,
      << <<"HEART","DIAMOND","SPADE","CLUB">>, <<"1">>, << <<>> >>, TRUE >>,
      << <<"SPADE","CLUB","K","SPADE","CLUB">>, <<"1","0">>, <<>>, FALSE >>,
      << <<"CLUB","SPADE","DIAMOND","HEART">>, <<"1">>, << <<"T">> >>, TRUE >>,
      << <<>>, <<>>, <<>>, FALSE >> }

TableFooters ==
    { <<>>, << [ heading |-> <<"Z">>, content |-> <<"n">> ] >> }

TableInputs ==
    { [ title |-> <<"T">>, type |-> "values_table", footer_sections |-> f, values |-> v ] :
        f \in TableFooters,
        v \in UNION { [ 1..n -> TableRows ] : n \in 0..MaxRows } }

ResolvedFonts ==
    { [ Fonts |-> DefaultFonts,
        registered |-> StandardFonts \cup { "CardFont", "CardFont-Bold" } ],
      [ Fonts |-> [ title |-> "Helvetica-Bold", heading |-> "Helvetica-Bold",
                    body |-> "Helvetica" ],
        registered |-> StandardFonts ] }

InitTable ==
    /\ config = DefaultConfig /\ raised = <<>>
    /\ LANGUAGE = "de"
    /\ \E r \in ResolvedFonts : Fonts = r.Fonts /\ registered = r.registered
    /\ phase = "table"
    /\ front_pos \in { << calculate_2card_positions.front[1] >>,
                       << calculate_4card_positions.front[4] >> }
    /\ back_pos = <<>>
    /\ \E card_data \in TableInputs : gen_content = [ CARD_1 |-> card_data ]
    /\ prog = ForCard(1, front_pos[1][1], front_pos[1][2],
                      draw_values_table(front_pos[1][1], front_pos[1][2], gen_content.CARD_1))
    /\ pc = 1
    /\ gs = InitGS /\ stack = <<>> /\ page = 1 /\ log = <<>>
    /\ files = {}
    /\ shared_CONTENT = CONTENT /\ returned = <<>>

NextTable == SetFont \/ SetFillColor \/ DrawString

TableSpec == InitTable /\ [][NextTable]_vars

----------------------------------------------------------------------------
(* draw_sections on its own: a section of at most MaxLines lines, alone or *)
(* followed by a second section, drawn at a card origin                    *)

MaxLines == 2

SectionLines ==
    { << "a", "b" >>,
      << " ", " ", " ", "c" >>,
      << "ARROW", " ", "d" >>,
      << " ", " ", " ", "ARROW", " ", "e" >>,
      << "ARROW" >>,
      << "f", " ", "ARROW", " ", "g" >>,
      << " ", "ARROW", " ", "h" >>,
      << "ARROW", "x", "y" >>,
      << " ", " ", " ", " ", "i", " " >> }

SectionInputs ==
    { [ title |-> <<"T">>, type |-> "sections", sections |-> <<first>> \o more ] :
        first \in { [ heading |-> <<"H">>, content |-> ls ] :
                      ls \in UNION { [ 1..n -> SectionLines ] : n \in 0..MaxLines } },
        more \in { <<>>, << [ heading |-> <<"G">>,
                              content |-> << <<"ARROW", " ", "z">>, <<"w">> >> ] >> } }

InitSections ==
    /\ config = DefaultConfig /\ raised = <<>>
    /\ LANGUAGE = "en"
    /\ \E r \in ResolvedFonts : Fonts = r.Fonts /\ registered = r.registered
    /\ phase = "sections"
    /\ front_pos \in { << calculate_2card_positions.front[2] >>,
                       << calculate_4card_positions.front[3] >> }
    /\ back_pos = <<>>
    /\ \E card_data \in SectionInputs : gen_content = [ CARD_2 |-> card_data ]
    /\ prog = ForCard(1, front_pos[1][1], front_pos[1][2],
                      draw_sections(front_pos[1][1], front_pos[1][2], gen_content.CARD_2))
    /\ pc = 1
    /\ gs = InitGS /\ stack = <<>> /\ page = 1 /\ log = <<>>
    /\ files = {}
    /\ shared_CONTENT = CONTENT /\ returned = <<>>

NextSections == SetFont \/ SetFillColor \/ DrawString

SectionsSpec == InitSections /\ [][NextSections]_vars

----------------------------------------------------------------------------
(* get_content on its own: the three generators call it in any order, up   *)
(* to MaxCalls calls in all                                                *)

MaxCalls == 4

Generators == { "generate_4card_edition", "generate_2card_edition", "generate_title_card" }

InitContent ==
    /\ config = DefaultConfig /\ raised = <<>>
    /\ LANGUAGE \in { "de", "en" }
    /\ Fonts = DefaultFonts /\ registered = StandardFonts
    /\ phase = "content"
    /\ gen_content = <<>> /\ prog = <<>> /\ pc = 1
    /\ front_pos = <<>> /\ back_pos = <<>>
    /\ gs = InitGS /\ stack = <<>> /\ page = 0 /\ log = <<>>
    /\ files = {}
    /\ shared_CONTENT = CONTENT /\ returned = <<>>

CallGetContent ==
    /\ phase = "content" /\ Len(returned) < MaxCalls
    /\ \E g \in Generators : GetContent(g)
    /\ UNCHANGED <<config, raised, LANGUAGE, Fonts, registered, phase, prog, pc, front_pos,
                   back_pos, gs, stack, page, log, files>>

NextContent == CallGetContent

ContentSpec == InitContent /\ [][NextContent]_vars

----------------------------------------------------------------------------
(* Reading the document *)

Entries == { log[i] : i \in 1..Len(log) }
Last == log[Len(log)]
Min2(a, b) == IF a <= b THEN a ELSE b
Max2(a, b) == IF a >= b THEN a ELSE b

(* the generator has computed its positions *)
Positioned(ph) == phase = ph /\ Len(front_pos) > 0

----------------------------------------------------------------------------
(* Mirrored position sets *)

(* C1: the back positions are the front positions with the two members of  *)
(* each row swapped: in the 2x2 grid back[2*row+col] = front[2*row+(1-col)] *)
(* for row, col in {0,1}; in the 2-in-a-row grid back[i] = front[1-i]; the *)
(* back set is a permutation of the front set, with no new coordinates.    *)
C1_MirroredPositions ==
    /\ Positioned("gen4") =>
          /\ Len(front_pos) = 4 /\ Len(back_pos) = 4
          /\ \A row \in {0, 1}, col \in {0, 1} :
                back_pos[2 * row + col + 1] = front_pos[2 * row + (1 - col) + 1]
    /\ Positioned("gen2") =>
          /\ Len(front_pos) = 2 /\ Len(back_pos) = 2
          /\ \A i \in {0, 1} : back_pos[i + 1] = front_pos[(1 - i) + 1]
    /\ (Positioned("gen4") \/ Positioned("gen2")) =>
          /\ { back_pos[i] : i \in 1..Len(back_pos) }
                = { front_pos[i] : i \in 1..Len(front_pos) }
          /\ Cardinality({ front_pos[i] : i \in 1..Len(front_pos) }) = Len(front_pos)

(* both grids have been computed and used: the compact edition has         *)
(* returned after the 4-card edition was saved                             *)
C1_Witness ==
    /\ phase = "gen2" /\ Returned
    /\ back_pos[1] = front_pos[2] /\ back_pos[1] # front_pos[1]
    /\ \E f \in files : f.path = "kabul_cards_4card"

(* C2: every back trim box is the reflection of its front trim box about   *)
(* the vertical centre line of the page: back[i].x = PAGE_WIDTH -          *)
(* front[i].x - CARD_WIDTH and back[i].y = front[i].y, in both grids.      *)
C2_DuplexAlignment ==
    (Positioned("gen4") \/ Positioned("gen2")) =>
        \A i \in 1..Len(front_pos) :
            /\ back_pos[i][1] = PAGE_WIDTH - front_pos[i][1] - CARD_WIDTH
            /\ back_pos[i][2] = front_pos[i][2]

(* a back card of the 4-card edition has been drawn at its mirrored slot *)
C2_Witness ==
    /\ phase = "gen4" /\ page = 2 /\ Len(log) > 0
    /\ Last.k = 8 /\ Last.x = back_pos[4][1] /\ Last.y = back_pos[4][2]
    /\ back_pos[4][1] # front_pos[4][1]

----------------------------------------------------------------------------
(* Crop marks *)

(* a horizontal mark on the trim line y = sy, outside the trim line x = sx *)
(* on the side dir (-1 left, 1 right)                                      *)
HMark(e, sx, sy, dir) ==
    /\ e.a[2] = sy /\ e.a[4] = sy
    /\ Min2(dir * (e.a[1] - sx), dir * (e.a[3] - sx)) = CROP_OFFSET
    /\ Max2(dir * (e.a[1] - sx), dir * (e.a[3] - sx)) = CROP_OFFSET + CROP_LENGTH

(* a vertical mark on the trim line x = sx, outside the trim line y = sy *)
VMark(e, sx, sy, dir) ==
    /\ e.a[1] = sx /\ e.a[3] = sx
    /\ Min2(dir * (e.a[2] - sy), dir * (e.a[4] - sy)) = CROP_OFFSET
    /\ Max2(dir * (e.a[2] - sy), dir * (e.a[4] - sy)) = CROP_OFFSET + CROP_LENGTH

(* the corners of the trim box of the card at (x, y): trim line x, its side, trim line y, its side *)
Corners(x, y) ==
    { <<x, -1, y, -1>>, <<x + CARD_WIDTH, 1, y, -1>>,
      <<x, -1, y + CARD_HEIGHT, 1>>, <<x + CARD_WIDTH, 1, y + CARD_HEIGHT, 1>> }

MarksOf(k) == { i \in 1..Len(log) : log[i].k = k /\ log[i].op = "line" }
MarksDone(k) == \E i \in 1..Len(log) : log[i].k = k /\ log[i].src = 577
CardsDrawn == { log[i].k : i \in 1..Len(log) } \ {0}

(* C3: every segment drawn for a card lies on the extension of a trim line *)
(* of that card, its near end exactly CROP_OFFSET and its far end          *)
(* CROP_OFFSET + CROP_LENGTH outside the perpendicular trim line; once the *)
(* marks of a card are complete there are exactly 8 of them, one on each   *)
(* of the two trim lines at each of the 4 corners.                         *)
C3_CropMarkGap ==
    /\ \A i \in 1..Len(log) :
          log[i].op = "line" =>
             /\ log[i].k # 0
             /\ \E c \in Corners(log[i].x, log[i].y) :
                   \/ HMark(log[i], c[1], c[3], c[2])
                   \/ VMark(log[i], c[1], c[3], c[4])
    /\ \A k \in CardsDrawn :
          MarksDone(k) =>
             /\ Cardinality(MarksOf(k)) = 8
             /\ \A c \in Corners(log[CHOOSE i \in MarksOf(k) : TRUE].x,
                                 log[CHOOSE i \in MarksOf(k) : TRUE].y) :
                   /\ Cardinality({ i \in MarksOf(k) : HMark(log[i], c[1], c[3], c[2]) }) = 1
                   /\ Cardinality({ i \in MarksOf(k) : VMark(log[i], c[1], c[3], c[4]) }) = 1

(* the marks of the last front card and of the last back card of the       *)
(* 4-card edition are complete                                             *)
C3_Witness ==
    /\ phase = "gen4" /\ Len(log) > 0 /\ Last.src = 577 /\ Last.k = 8
    /\ MarksDone(4) /\ Cardinality(MarksOf(4)) = 8 /\ Cardinality(MarksOf(8)) = 8

----------------------------------------------------------------------------
(* The value table *)

TableValues == gen_content.CARD_1.values
EqualsDraws == SelectSeq(log, LAMBDA e : e.src = 900)
ValueDraws == SelectSeq(log, LAMBDA e : e.src = 901)

(* C4: in every row of the table the "=" begins at one x and the value at  *)
(* one x, each a constant offset from the card origin, whatever the label, *)
(* its glyph pair or the row's action; there is one "=" and one value per  *)
(* row, on the same baseline.                                              *)
C4_ColumnAlignment ==
    /\ \A i, j \in 1..Len(EqualsDraws) : EqualsDraws[i].a[1] = EqualsDraws[j].a[1]
    /\ \A i, j \in 1..Len(ValueDraws) : ValueDraws[i].a[1] = ValueDraws[j].a[1]
    /\ \A i \in 1..Len(EqualsDraws) :
          /\ EqualsDraws[i].op = "drawString" /\ EqualsDraws[i].t = STR_EQUALS
          /\ EqualsDraws[i].a[1] = EqualsDraws[i].x + 24 * mm
    /\ \A i \in 1..Len(ValueDraws) :
          /\ ValueDraws[i].op = "drawString" /\ ValueDraws[i].t = TableValues[i][2]
          /\ ValueDraws[i].a[1] = ValueDraws[i].x + 27 * mm
          /\ ValueDraws[i].a[2] = EqualsDraws[i].a[2]
    /\ Len(ValueDraws) <= Len(EqualsDraws) /\ Len(EqualsDraws) <= Len(TableValues)
    /\ Returned => Len(ValueDraws) = Len(TableValues)

(* a finished table of two rows whose labels differ in length, one with a  *)
(* glyph pair and an action, one without                                  *)
C4_Witness ==
    /\ phase = "table" /\ Returned /\ Len(TableValues) = 2
    /\ Contains(TableValues[1][1], GLYPHS_BLACK) /\ truthy(TableValues[1][3])
    /\ ~Contains(TableValues[2][1], GLYPHS_BLACK) /\ ~truthy(TableValues[2][3])
    /\ Len(TableValues[1][1]) # Len(TableValues[2][1])
    /\ Len(ValueDraws) = 2

(* the part of the label before the first occurrence of the pair *)
PrefixBefore(label, pair) ==
    LET n == CHOOSE n \in 0..(Len(label) - 2) :
                /\ SubSeq(label, n + 1, n + 2) = pair
                /\ \A m \in 0..(n - 1) : SubSeq(label, m + 1, m + 2) # pair
    IN  SubSeq(label, 1, n)

HasPair(label, pair) == \E n \in 0..(Len(label) - 2) : SubSeq(label, n + 1, n + 2) = pair

(* what the label of a row is to be drawn as: text, colour, and the text   *)
(* whose measured width separates it from the label column                 *)
ExpectedLabel(label) ==
    IF HasPair(label, <<"SPADE", "CLUB">>)
    THEN << [ t |-> PrefixBefore(label, <<"SPADE", "CLUB">>), fill |-> Colors.text,
              after |-> <<>> ],
            [ t |-> <<"SPADE", "CLUB">>, fill |-> Colors.black,
              after |-> PrefixBefore(label, <<"SPADE", "CLUB">>) ] >>
    ELSE IF HasPair(label, <<"HEART", "DIAMOND">>)
    THEN << [ t |-> PrefixBefore(label, <<"HEART", "DIAMOND">>), fill |-> Colors.text,
              after |-> <<>> ],
            [ t |-> <<"HEART", "DIAMOND">>, fill |-> Colors.red,
              after |-> PrefixBefore(label, <<"HEART", "DIAMOND">>) ] >>
    ELSE << [ t |-> label, fill |-> Colors.text, after |-> <<>> ] >>

RECURSIVE ExpectedLabels(_, _)
ExpectedLabels(values, i) ==
    IF i > Len(values) THEN <<>>
    ELSE ExpectedLabel(values[i][1]) \o ExpectedLabels(values, i + 1)

LabelDraws ==
    SelectSeq(log, LAMBDA e : e.op = "drawString" /\ e.src \in {883, 886, 890, 893, 896})

(* C5: a label containing a known glyph pair (the black pair when it holds *)
(* both) is drawn as its prefix, in the default text colour at the label   *)
(* column, followed by the pair in its mapped colour at the label column   *)
(* plus the width of the prefix measured in the font it is drawn in; a     *)
(* label with no known pair is drawn whole in the default colour at the    *)
(* label column.  Nothing else of a label is drawn.                        *)
C5_GlyphRecolouring ==
    LET want == ExpectedLabels(TableValues, 1)
    IN  /\ Len(LabelDraws) <= Len(want)
        /\ Returned => Len(LabelDraws) = Len(want)
        /\ \A i \in 1..Len(LabelDraws) :
              /\ LabelDraws[i].t = want[i].t
              /\ LabelDraws[i].fill = want[i].fill
              /\ LabelDraws[i].a[1] = LabelDraws[i].x + MARGIN + 1 * mm
                    + stringWidth(want[i].after, LabelDraws[i].font, LabelDraws[i].size)

(* a finished table with a red-pair label after a non-empty prefix, a      *)
(* black-pair label and a label without a pair                             *)
C5_Witness ==
    /\ phase = "table" /\ Returned /\ Len(TableValues) = 2
    /\ HasPair(TableValues[1][1], <<"HEART", "DIAMOND">>)
    /\ ~HasPair(TableValues[1][1], <<"SPADE", "CLUB">>)
    /\ PrefixBefore(TableValues[1][1], <<"HEART", "DIAMOND">>) # <<>>
    /\ HasPair(TableValues[2][1], <<"SPADE", "CLUB">>)
    /\ Len(LabelDraws) = 4
    /\ LabelDraws[2].fill = Colors.red /\ LabelDraws[2].a[1] > LabelDraws[1].a[1]

----------------------------------------------------------------------------
(* The generated documents *)

(* the generator has returned: its canvas is saved *)
Generated(ph) == phase = ph /\ Returned

Subtitles == SelectSeq(log, LAMBDA e : e.src = 859)
Numbers == SelectSeq(log, LAMBDA e : e.src = 864)
FrontBases == SelectSeq(log, LAMBDA e : e.src = 606)
BackBases == SelectSeq(log, LAMBDA e : e.src = 664)
BackTitles == SelectSeq(log, LAMBDA e : e.src = 699)
Footers == SelectSeq(log, LAMBDA e : e.op = "drawString" /\ e.k = 0)
Hints == SelectSeq(log, LAMBDA e : e.op = "drawRightString" /\ e.k = 0)
ShowPages == { i \in 1..Len(log) : log[i].op = "showPage" }
Saves == { i \in 1..Len(log) : log[i].op = "save" }
TabularCards == { log[i].k : i \in { j \in 1..Len(log) : log[j].src \in 876..923 } }
SectionedCards == { log[i].k : i \in { j \in 1..Len(log) : log[j].src \in 932..954 } }

(* where the card with trim-box origin pos has its subtitle and its bleed box *)
SubtitleAt(pos) == <<pos[1] + CARD_WIDTH \div 2, pos[2] + CARD_HEIGHT - 165>>
BleedBox(pos) == <<pos[1] - BLEED, pos[2] - BLEED, CARD_WIDTH_BLEED, CARD_HEIGHT_BLEED>>
BackTitleAt(pos) == <<pos[1] + CARD_WIDTH \div 2, pos[2] + CARD_HEIGHT \div 2 + 5 * mm>>
Mirror(pos) == <<PAGE_WIDTH - pos[1] - CARD_WIDTH, pos[2]>>

(* C6: the 4-card edition is a document of exactly 2 pages; page 1 holds   *)
(* the fronts of cards 1..4 in order at the 2x2 front positions, one in    *)
(* the tabular layout and three in the sectioned layout, and a footer      *)
(* containing "1/2"; page 2 holds 4 decorative backs at the mirrored       *)
(* positions, a footer containing "2/2" and the duplex hint.               *)
C6_FourCardEdition ==
    Generated("gen4") =>
       LET cards == << gen_content.CARD_1, gen_content.CARD_2,
                       gen_content.CARD_3, gen_content.CARD_4 >>
       IN  /\ page = 2 /\ Cardinality(ShowPages) = 1
           /\ \E f \in files : f.path = "kabul_cards_4card" /\ f.pages = 2
           /\ Len(Subtitles) = 4 /\ Len(Numbers) = 4 /\ Len(FrontBases) = 4
           /\ \A i \in 1..4 :
                 /\ Subtitles[i].page = 1 /\ FrontBases[i].page = 1
                 /\ Subtitles[i].t = cards[i].title
                 /\ Numbers[i].t = <<ToString(i), "/", "4">>
                 /\ Subtitles[i].a = SubtitleAt(front_pos[i])
                 /\ FrontBases[i].a = BleedBox(front_pos[i])
                 /\ FrontBases[i].clip = BleedBox(front_pos[i])
           /\ Cardinality(TabularCards) = 1 /\ Cardinality(SectionedCards) = 3
           /\ TabularCards \cap SectionedCards = {}
           /\ \A i \in 1..4 : (cards[i].type = "values_table") = (Subtitles[i].k \in TabularCards)
           /\ Len(BackBases) = 4 /\ Len(BackTitles) = 4
           /\ \A i \in 1..4 :
                 /\ BackBases[i].page = 2 /\ BackTitles[i].page = 2
                 /\ BackBases[i].a = BleedBox(Mirror(front_pos[i]))
                 /\ BackTitles[i].a = BackTitleAt(Mirror(front_pos[i]))
                 /\ BackTitles[i].t = gen_content.BACK_TITLE
           /\ Len(Footers) = 2
           /\ Footers[1].page = 1 /\ Contains(Footers[1].t, <<"1", "/", "2">>)
           /\ Footers[2].page = 2 /\ Contains(Footers[2].t, <<"2", "/", "2">>)
           /\ Len(Hints) = 1 /\ Hints[1].page = 2
           /\ Hints[1].t = gen_content.PAGE_INFO.duplex_hint /\ Hints[1].t # <<>>

(* the German 4-card edition has been generated with the registered card fonts *)
C6_Witness ==
    /\ Generated("gen4") /\ LANGUAGE = "de" /\ Fonts = DefaultFonts
    /\ Len(BackBases) = 4 /\ Len(Subtitles) = 4

(* C7: the compact edition puts CardSpecs 1 and 3 on page 1 and 2 and 4 on *)
(* page 2, two cards per page; the page-2 positions are the page-1         *)
(* positions swapped, so card 2 lies at the mirror of card 1's position    *)
(* and card 4 at the mirror of card 3's.                                   *)
C7_CompactCrossAssignment ==
    Generated("gen2") =>
       /\ page = 2 /\ Cardinality(ShowPages) = 1
       /\ Len(Subtitles) = 4 /\ Len(FrontBases) = 4
       /\ Subtitles[1].t = gen_content.CARD_1.title /\ Subtitles[1].page = 1
       /\ Subtitles[2].t = gen_content.CARD_3.title /\ Subtitles[2].page = 1
       /\ Subtitles[3].t = gen_content.CARD_2.title /\ Subtitles[3].page = 2
       /\ Subtitles[4].t = gen_content.CARD_4.title /\ Subtitles[4].page = 2
       /\ Subtitles[1].k \in TabularCards
       /\ { Subtitles[2].k, Subtitles[3].k, Subtitles[4].k } = SectionedCards
       /\ << Numbers[1].t, Numbers[2].t, Numbers[3].t, Numbers[4].t >>
             = << <<"1","a">>, <<"2","a">>, <<"1","b">>, <<"2","b">> >>
       /\ \A i \in 1..4 : FrontBases[i].page = Subtitles[i].page
       /\ Subtitles[1].a = SubtitleAt(front_pos[1]) /\ FrontBases[1].a = BleedBox(front_pos[1])
       /\ Subtitles[2].a = SubtitleAt(front_pos[2]) /\ FrontBases[2].a = BleedBox(front_pos[2])
       /\ Subtitles[3].a = SubtitleAt(back_pos[1]) /\ FrontBases[3].a = BleedBox(back_pos[1])
       /\ Subtitles[4].a = SubtitleAt(back_pos[2]) /\ FrontBases[4].a = BleedBox(back_pos[2])
       /\ back_pos = << front_pos[2], front_pos[1] >>
       /\ Subtitles[3].a = SubtitleAt(Mirror(front_pos[1]))
       /\ Subtitles[4].a = SubtitleAt(Mirror(front_pos[2]))

(* the English compact edition has been generated *)
C7_Witness ==
    /\ Generated("gen2") /\ LANGUAGE = "en"
    /\ Len(Subtitles) = 4 /\ Subtitles[3].page = 2
    /\ Subtitles[3].t = CONTENT_en.card_2.title

(* text contains the parts one after the other, from index from on *)
RECURSIVE InOrderFrom(_, _, _, _)
InOrderFrom(text, parts, i, from) ==
    IF i > Len(parts) THEN TRUE
    ELSE LET at == Find(text, parts[i], from)
         IN  at # 0 /\ InOrderFrom(text, parts, i + 1, at + Len(parts[i]))

EditionLabel ==
    CASE phase = "gen4" -> gen_content.PAGE_INFO.4card_edition
      [] phase = "gen2" -> gen_content.PAGE_INFO.2card_edition
      [] phase = "title" -> <<"T","i","t","l","e"," ","C","a","r","d">>

PageDescription(p) ==
    CASE phase = "gen4" -> IF p = 1 THEN gen_content.PAGE_INFO.4card_front
                           ELSE gen_content.PAGE_INFO.4card_back
      [] phase = "gen2" -> IF p = 1 THEN gen_content.PAGE_INFO.2card_front
                           ELSE gen_content.PAGE_INFO.2card_back
      [] phase = "title" -> IF p = 1 THEN gen_content.PAGE_INFO.title_front
                            ELSE gen_content.PAGE_INFO.title_back

PageTotal == 2

(* C8: the footer of every page of every document contains, in this order, *)
(* the edition label, "Page X/Y" with X the page it is drawn on and Y the  *)
(* number of pages, the page's description and "63x88mm" (with the         *)
(* multiplication sign); a generated document has one footer per page.     *)
C8_FooterText ==
    phase \in GenPhases =>
       /\ \A i \in 1..Len(Footers) :
             InOrderFrom(Footers[i].t,
                         << EditionLabel,
                            <<"P","a","g","e"," ">> \o <<ToString(Footers[i].page)>>
                               \o <<"/">> \o <<ToString(PageTotal)>>,
                            PageDescription(Footers[i].page),
                            <<"6","3","TIMES","8","8","m","m">> >>, 1, 1)
       /\ Returned =>
             /\ page = PageTotal
             /\ Len(Footers) = PageTotal
             /\ \A p \in 1..PageTotal : Footers[p].page = p

(* the footers of both pages of the title card have been drawn *)
C8_Witness ==
    /\ Generated("title") /\ Len(Footers) = 2
    /\ Footers[2].page = 2 /\ Footers[1].t # Footers[2].t

----------------------------------------------------------------------------
(* Drawing state *)

(* the last call made so far was the last call of a card face *)
CardDone ==
    /\ phase \in GenPhases /\ Len(log) > 0 /\ Last.k # 0
    /\ (pc > Len(prog) \/ prog[pc].k # Last.k)

(* the first call of card k, recorded with the state the card started in *)
CardStart(k) ==
    log[CHOOSE i \in 1..Len(log) :
           log[i].k = k /\ \A j \in 1..(i - 1) : log[j].k # k]

(* calls i and j belong to the same card face or the same page's footer *)
SameUnit(i, j) == log[i].k = log[j].k /\ log[i].page = log[j].page

FillPaints == { "rect", "drawPath", "circle", "drawString", "drawCentredString",
                "drawRightString" }
TextPaints == { "drawString", "drawCentredString", "drawRightString" }

(* C9 as stated: every call that changes fill colour, stroke colour, font  *)
(* or clip region runs between a saveState and its restoreState, and once  *)
(* a card face is drawn the fill colour, font and clip region are those    *)
(* from before the card.                                                   *)
C9_AsStated ==
    phase \in GenPhases =>
       /\ \A i \in 1..Len(log) :
             log[i].op \in { "setFillColor", "setStrokeColor", "setFont", "clipPath" }
                => log[i].depth >= 1
       /\ CardDone =>
             /\ gs.fill = CardStart(Last.k).fill
             /\ gs.font = CardStart(Last.k).font
             /\ gs.size = CardStart(Last.k).size
             /\ gs.clip = CardStart(Last.k).clip

(* C9: every call that changes the clip region, the stroke colour or the   *)
(* line width runs between a saveState and its restoreState; once a card   *)
(* face is drawn, the clip region (none), the stroke colour, the line      *)
(* width and the depth of the state stack are those from before the card;  *)
(* every shape and text is painted in a fill colour, and every text in a   *)
(* font, set earlier within the same card face or the same page footer.    *)
(* (Fill colour and font are set outside any saveState by the title, the   *)
(* card content and the footer, and stay set after the card.)              *)
C9_ScopedClipAndStroke ==
    phase \in GenPhases =>
       /\ \A i \in 1..Len(log) :
             /\ log[i].op \in { "clipPath", "setStrokeColor", "setLineWidth" }
                   => log[i].depth >= 1
             /\ log[i].op \in FillPaints =>
                   \E j \in 1..(i - 1) :
                      /\ log[j].op = "setFillColor" /\ SameUnit(i, j)
                      /\ log[j].t[1] = log[i].fill
             /\ log[i].op \in TextPaints =>
                   \E j \in 1..(i - 1) :
                      /\ log[j].op = "setFont" /\ SameUnit(i, j)
                      /\ log[j].t[1] = log[i].font /\ log[j].a[1] = log[i].size
             /\ log[i].op = "line" =>
                   \E j \in 1..(i - 1) :
                      /\ log[j].op = "setStrokeColor" /\ SameUnit(i, j)
                      /\ log[j].t[1] = log[i].stroke
             /\ (log[i].k = 0 /\ log[i].op \notin { "showPage", "save" }) =>
                   log[i].clip = <<>> /\ log[i].depth = 0
       /\ CardDone =>
             /\ gs.clip = CardStart(Last.k).clip /\ gs.clip = <<>>
             /\ gs.stroke = CardStart(Last.k).stroke
             /\ gs.lw = InitGS.lw
             /\ Len(stack) = CardStart(Last.k).depth /\ stack = <<>>

(* the first card front is drawn: its clip is gone, its text colour and font stay *)
C9_Witness ==
    /\ CardDone /\ phase = "gen4" /\ Last.k = 1 /\ Last.src = 577
    /\ gs.clip = <<>> /\ stack = <<>>
    /\ gs.fill # CardStart(1).fill /\ gs.font # CardStart(1).font

----------------------------------------------------------------------------
(* Document lifecycle *)

Page1Calls ==
    CASE phase = "gen4" -> page1_4card(gen_content, front_pos)
      [] phase = "gen2" -> page1_2card(gen_content, front_pos)
      [] phase = "title" -> page1_title(gen_content, title_x, title_y)

Page2Calls ==
    CASE phase = "gen4" -> page2_4card(gen_content, back_pos)
      [] phase = "gen2" -> page2_2card(gen_content, back_pos)
      [] phase = "title" -> page2_title(gen_content, title_x, title_y)

Stripped(e) == [ op |-> e.op, a |-> e.a, t |-> e.t, src |-> e.src, k |-> e.k,
                 x |-> e.x, y |-> e.y ]

(* C10: in each generator the document starts with no call made on it; the *)
(* page-1 draws all come before the one showPage and are on page 1, the    *)
(* page-2 draws all come after it and are on page 2; save is called once,  *)
(* after the last page-2 draw, writes the file once, and no call follows   *)
(* it.  Stated of the call just made, every call being the last one made   *)
(* in the state that follows it.                                           *)
C10_DocumentLifecycle ==
    phase \in GenPhases =>
       /\ pc = Len(log) + 1
       /\ pc = 1 => page = 1 /\ log = <<>> /\ Saves = {}
       /\ Len(log) > 0 =>
             LET i == Len(log)
                 n1 == Len(Page1Calls)
                 n2 == Len(Page2Calls)
             IN  /\ i <= n1 =>
                       /\ Stripped(Last) = Page1Calls[i] /\ Last.page = 1
                       /\ Last.op \notin { "showPage", "save" }
                 /\ (Last.op = "showPage") = (i = n1 + 1)
                 /\ (i > n1 + 1 /\ i <= n1 + 1 + n2) =>
                       /\ Stripped(Last) = Page2Calls[i - n1 - 1] /\ Last.page = 2
                 /\ (Last.op = "save") = (i = n1 + n2 + 2)
                 /\ i <= n1 + n2 + 2
       /\ Cardinality({ f \in files : f.path = OutputPath[phase] })
             = Cardinality(Saves)
       /\ Saves # {} => Returned /\ Last.op = "save"
       /\ Returned => Cardinality(Saves) = 1 /\ Cardinality(ShowPages) = 1
       /\ \A f \in files : f.path = OutputPath[phase] => f.pages = 2

(* the compact edition has just been saved, after the duplex hint on page 2 *)
C10_Witness ==
    /\ Generated("gen2") /\ Last.op = "save"
    /\ log[Len(log) - 1].op = "drawRightString" /\ log[Len(log) - 1].page = 2
    /\ \E f \in files : f.path = "kabul_cards_2card"

----------------------------------------------------------------------------
(* Failures *)

(* the files written under the output path of document d *)
DocFiles(d) == { f \in files : f.path = OutputPath[d] }

(* C11: a write failure while one document is generated is fatal for that  *)
(* document only: when main() has ended on the failure, the two other      *)
(* documents have been generated and saved.                                *)
C11_FailureIsolation ==
    (phase = "aborted" /\ raised.what = "OSError") =>
       \A d \in GenPhases \ { raised.where } :
          \E f \in DocFiles(d) : f.complete

(* C12: a document has no file while its generator is drawing; its file is *)
(* written by the save that follows all canvas calls of both pages, and is *)
(* the whole document; a generator that a draw step ended with an error    *)
(* leaves no file for its document.                                        *)
C12_NoPartialOutput ==
    /\ (phase \in GenPhases /\ Running) => DocFiles(phase) = {}
    /\ phase \in GenPhases =>
          \A f \in DocFiles(phase) :
             /\ f.complete /\ Returned /\ Last.op = "save"
             /\ f.calls = Len(prog) - 1 /\ f.pages = 2
    /\ (phase = "aborted" /\ raised.what = "KeyError") =>
          /\ pc <= Len(prog) /\ prog[pc].op # "save"
          /\ DocFiles(raised.where) = {}

(* a generator has drawn part of its first page and was ended by a draw step *)
C12_Witness ==
    /\ phase = "aborted" /\ raised.what = "KeyError"
    /\ Len(log) > 0 /\ pc <= Len(prog) /\ prog[pc].op = "setFont"
    /\ DocFiles(raised.where) = {}

(* C13: with a geometry constant that is not positive the run fails at     *)
(* startup: it makes no canvas call and writes no file.                    *)
C13_ConfigurationValidation ==
    (\E n \in GeometryNames : config[n] <= 0) =>
       /\ log = <<>> /\ files = {}
       /\ phase \notin { "gen2", "title", "done" }

----------------------------------------------------------------------------
(* Determinism: the generator run again, on its own *)

(* the canvas a run on its own starts with *)
FreshCanvas == [ gs |-> InitGS, stack |-> <<>>, page |-> 1 ]

(* the canvas after call c *)
After(st, c) ==
    CASE c.op = "saveState" -> [ st EXCEPT !.stack = Append(st.stack, st.gs) ]
      [] c.op = "restoreState" ->
            [ st EXCEPT !.gs = st.stack[Len(st.stack)],
                        !.stack = SubSeq(st.stack, 1, Len(st.stack) - 1) ]
      [] c.op = "setFillColor" -> [ st EXCEPT !.gs.fill = c.t[1] ]
      [] c.op = "setStrokeColor" -> [ st EXCEPT !.gs.stroke = c.t[1] ]
      [] c.op = "setLineWidth" -> [ st EXCEPT !.gs.lw = c.a[1] ]
      [] c.op = "setFont" -> [ st EXCEPT !.gs.font = c.t[1], !.gs.size = c.a[1] ]
      [] c.op = "clipPath" -> [ st EXCEPT !.gs.clip = c.a ]
      [] c.op = "showPage" -> [ st EXCEPT !.gs = InitGS, !.page = st.page + 1 ]
      [] OTHER -> st

(* call c as a run on its own records it in canvas state st *)
Recorded(c, st) ==
    [ op |-> c.op, a |-> c.a, t |-> c.t, src |-> c.src, k |-> c.k, x |-> c.x,
      y |-> c.y, page |-> st.page, fill |-> st.gs.fill, stroke |-> st.gs.stroke,
      font |-> st.gs.font, size |-> st.gs.size, clip |-> st.gs.clip,
      depth |-> Len(st.stack) ]

(* calls lo..hi run from canvas state st: the state they end in and what   *)
(* they record, computed by halves; the left half is run to its end before *)
(* the right half starts from the state it left (the tests of st.stack and *)
(* of l.done are never met: they make TLC evaluate st and l at that point) *)
RECURSIVE RunFrom(_, _, _, _)
RunFrom(calls, lo, hi, st) ==
    IF lo > hi \/ Len(st.stack) < 0 THEN [ st |-> st, done |-> <<>> ]
    ELSE IF lo = hi
         THEN [ st |-> After(st, calls[lo]), done |-> << Recorded(calls[lo], st) >> ]
         ELSE LET mid == (lo + hi) \div 2
                  l == RunFrom(calls, lo, mid, st)
              IN  IF Len(l.done) # mid - lo + 1 THEN l
                  ELSE LET r == RunFrom(calls, mid + 1, hi, l.st)
                       IN  [ st |-> r.st, done |-> l.done \o r.done ]

Rerun(calls, i, st, done) == done \o RunFrom(calls, i, Len(calls), st).done

(* the calls of generator ph computed again from the content and the configuration *)
CallsOf(ph) ==
    CASE ph = "gen4" -> generate_4card_edition(get_content, calculate_4card_positions.front,
                                               calculate_4card_positions.back)
      [] ph = "gen2" -> generate_2card_edition(get_content, calculate_2card_positions.front,
                                               calculate_2card_positions.back)
      [] ph = "title" -> generate_title_card(get_content, title_x, title_y)

----------------------------------------------------------------------------
(* The order of drawing *)

(* the step of draw_card_front a recorded call belongs to, by its source line *)
Stage(e) ==
    CASE e.src \in (964..971) \cup (584..648) -> 1     \* clipped background
      [] e.src \in 852..864 -> 2                       \* title and card number
      [] e.src \in 876..954 -> 3                       \* content layout
      [] e.src \in 543..577 -> 4                       \* crop marks
      [] OTHER -> 0

(* the recorded calls of card k, in order *)
CallsOfCard(k) == SelectSeq(log, LAMBDA e : e.k = k)

(* card k was drawn by draw_card_front *)
IsFront(k) == \E i \in 1..Len(log) : log[i].k = k /\ log[i].src = 964

(* the CardSpec whose title card k carries *)
SpecOfCard(k) ==
    LET title == (CHOOSE e \in Entries : e.k = k /\ e.src = 859).t
    IN  CHOOSE c \in { gen_content.CARD_1, gen_content.CARD_2,
                       gen_content.CARD_3, gen_content.CARD_4 } : c.title = title

(* C15: every card front is drawn as clipped background, then title and    *)
(* card number, then one content layout (tabular for a values_table card,  *)
(* sectioned otherwise), then crop marks; the calls of a card are          *)
(* consecutive; the page footer comes after the last card of its page and  *)
(* before the page ends.                                                   *)
C15_PipelineOrder ==
    phase \in GenPhases =>
       /\ \A i \in 2..Len(log) :
             /\ (log[i].k = log[i-1].k /\ log[i].k # 0 /\ IsFront(log[i].k))
                   => Stage(log[i]) >= Stage(log[i-1]) /\ Stage(log[i-1]) >= 1
             /\ (log[i].k # log[i-1].k /\ log[i].k # 0)
                   => \A j \in 1..(i - 1) : log[j].k # log[i].k
             /\ (log[i].k # 0 /\ Stage(log[i]) = 1 /\ log[i].src # 964)
                   => /\ log[i].depth >= 1
                      /\ log[i].op # "clipPath" =>
                            log[i].clip = BleedBox(<<log[i].x, log[i].y>>)
       /\ \A i \in 1..Len(log) :
             (log[i].k = 0 /\ log[i].op \notin { "showPage", "save" }) =>
                /\ \E j \in 1..(i - 1) : log[j].k # 0 /\ log[j].page = log[i].page
                /\ \A j \in (i + 1)..Len(log) :
                      log[j].k # 0 => log[j].page > log[i].page
       /\ (CardDone /\ IsFront(Last.k)) =>
             LET calls == CallsOfCard(Last.k)
                 stages == { Stage(calls[i]) : i \in 1..Len(calls) }
                 tabular == \E i \in 1..Len(calls) : calls[i].src \in 876..923
                 sectioned == \E i \in 1..Len(calls) : calls[i].src \in 932..954
             IN  /\ stages = { 1, 2, 3, 4 }
                 /\ calls[1].op = "saveState" /\ calls[2].op = "clipPath"
                 /\ calls[2].a = BleedBox(<<Last.x, Last.y>>)
                 /\ tabular = (SpecOfCard(Last.k).type = "values_table")
                 /\ sectioned = ~tabular
                 /\ Cardinality({ i \in 1..Len(calls) : calls[i].op = "line" }) = 8

(* the second card of a page is done and the third has not started *)
C15_Witness ==
    /\ CardDone /\ phase = "gen4" /\ Last.k = 2 /\ IsFront(2)
    /\ \E i \in 1..Len(log) : log[i].k = 2 /\ log[i].src \in 932..954

----------------------------------------------------------------------------
(* The table cursor *)

RowIncrement == 32
ActionIncrement == 28

ActionDraws == SelectSeq(log, LAMBDA e : e.src = 907)
FooterHeadingDraws == SelectSeq(log, LAMBDA e : e.src = 917)

(* how many of the first k rows have an action *)
NumActions(k) == Cardinality({ j \in 1..k : truthy(TableValues[j][3]) })

(* the cursor after the first k rows of the table drawn at card origin y *)
CursorAfter(k, y) ==
    y + CARD_HEIGHT - 21 * mm - (k * RowIncrement + NumActions(k) * ActionIncrement)

(* the row the i-th action belongs to *)
RowOfAction(i) ==
    CHOOSE r \in 1..Len(TableValues) : truthy(TableValues[r][3]) /\ NumActions(r) = i

(* C16: row k+1 of the table is drawn at the start value of the cursor     *)
(* less k row increments and one action increment for each of the first k  *)
(* rows that has an action; an action is drawn, prefixed by the arrow, one *)
(* action increment below its row's line, at the value column, in the      *)
(* heading colour, and the fill colour is set back to the text colour      *)
(* right after it, so that every "=" and value is drawn in the text        *)
(* colour; the footer sections start at the cursor after all rows, less    *)
(* the gap before them.                                                    *)
C16_TabularCursor ==
    /\ \A i \in 1..Len(EqualsDraws) :
          /\ EqualsDraws[i].a[2] = CursorAfter(i - 1, EqualsDraws[i].y)
          /\ EqualsDraws[i].fill = Colors.text
    /\ \A i \in 1..Len(ValueDraws) :
          /\ ValueDraws[i].a[2] = CursorAfter(i - 1, ValueDraws[i].y)
          /\ ValueDraws[i].fill = Colors.text
    /\ Len(ActionDraws) <= NumActions(Len(TableValues))
    /\ Returned => Len(ActionDraws) = NumActions(Len(TableValues))
    /\ \A i \in 1..Len(ActionDraws) :
          LET e == ActionDraws[i]
              r == RowOfAction(i)
          IN  /\ e.op = "drawString"
              /\ e.t = <<"ARROW", " ">> \o TableValues[r][3][1]
              /\ e.a[1] = e.x + 27 * mm /\ e.a[1] = ValueDraws[r].a[1]
              /\ e.a[1] # e.x + MARGIN + 1 * mm
              /\ e.a[2] = CursorAfter(r - 1, e.y) - ActionIncrement
              /\ e.a[2] = ValueDraws[r].a[2] - ActionIncrement
              /\ e.fill = Colors.heading
    /\ \A i \in 1..(Len(log) - 1) :
          log[i].src = 907 =>
             log[i+1].op = "setFillColor" /\ log[i+1].t = <<Colors.text>>
    /\ \A i \in 1..Len(FooterHeadingDraws) :
          FooterHeadingDraws[i].a[2]
             = CursorAfter(Len(TableValues), FooterHeadingDraws[i].y) - 15 - 35 * (i - 1)

(* a finished table of two rows, both with an action, and a footer section *)
C16_Witness ==
    /\ phase = "table" /\ Returned /\ Len(TableValues) = 2
    /\ truthy(TableValues[1][3]) /\ truthy(TableValues[2][3])
    /\ Len(ActionDraws) = 2 /\ Len(FooterHeadingDraws) = 1
    /\ gs.fill = Colors.text

----------------------------------------------------------------------------
(* The lines of a section *)

LineIncrement == 29

LineDraws == SelectSeq(log, LAMBDA e : e.src \in { 950, 952, 954 })

(* what one content line is to be drawn as, with the cursor at y *)
ExpectedLine(text, x, y) ==
    LET marked == Len(text) >= 3 /\ SubSeq(text, 1, 3) = <<" ", " ", " ">>
        indent == IF marked THEN 25 ELSE 0
        shown == IF marked THEN strip(SubSeq(text, 4, Len(text))) ELSE text
        left == x + MARGIN + 1 * mm + indent
    IN  IF Len(shown) >= 1 /\ shown[1] = "ARROW"
        THEN << [ t |-> <<"ARROW">>, fill |-> Colors.accent, a |-> <<left, y>> ],
                [ t |-> SubSeq(shown, 3, Len(shown)), fill |-> Colors.text,
                  a |-> <<left + 3 * mm, y>> ] >>
        ELSE << [ t |-> shown, fill |-> Colors.text, a |-> <<left, y>> ] >>

RECURSIVE ExpectedLines(_, _, _, _)
ExpectedLines(lines, j, x, y) ==
    IF j > Len(lines) THEN <<>>
    ELSE ExpectedLine(lines[j], x, y) \o ExpectedLines(lines, j + 1, x, y - LineIncrement)

RECURSIVE ExpectedSections(_, _, _, _)
ExpectedSections(sections, n, x, y) ==
    IF n > Len(sections) THEN <<>>
    ELSE ExpectedLines(sections[n].content, 1, x, y - 33)
         \o ExpectedSections(sections, n + 1, x,
               y - 33 - LineIncrement * Len(sections[n].content) - 12)

(* C17: a content line that begins with the 3-space marker is drawn at the *)
(* fixed indent without the marker (and without any further blanks around  *)
(* it), any other line at indent 0; if what is left begins with the arrow, *)
(* the arrow alone is drawn in the accent colour at the indent and the     *)
(* rest, less the arrow and one character, in the text colour at the       *)
(* indent plus 3 mm; otherwise the whole is drawn in the text colour at    *)
(* the indent, also after an arrow line; each line is one line increment   *)
(* below the line before it.                                               *)
C17_SectionedLines ==
    phase = "sections" =>
       LET want == ExpectedSections(gen_content.CARD_2.sections, 1,
                                    front_pos[1][1], front_pos[1][2] + CARD_HEIGHT - 21 * mm)
       IN  /\ Len(LineDraws) <= Len(want)
           /\ Returned => Len(LineDraws) = Len(want)
           /\ \A i \in 1..Len(LineDraws) :
                 /\ LineDraws[i].op = "drawString"
                 /\ LineDraws[i].t = want[i].t
                 /\ LineDraws[i].fill = want[i].fill
                 /\ LineDraws[i].a = want[i].a

(* a finished section whose arrow line is followed by a marked plain line *)
C17_Witness ==
    /\ phase = "sections" /\ Returned
    /\ gen_content.CARD_2.sections[1].content
          = << <<"ARROW", " ", "d">>, <<" ", " ", " ", "c">> >>
    /\ Len(LineDraws) >= 3
    /\ LineDraws[1].fill = Colors.accent /\ LineDraws[3].fill = Colors.text
    /\ LineDraws[3].a[1] = LineDraws[1].a[1] + 25

----------------------------------------------------------------------------
(* The duplex hint *)

(* the recorded calls that draw the duplex hint text *)
HintDraws ==
    SelectSeq(log, LAMBDA e : e.op \in TextPaints /\ e.t = gen_content.PAGE_INFO.duplex_hint)

(* C18: in each of the three documents the duplex hint is drawn on page 2  *)
(* only, right-aligned at the right end of the footer line, once, after    *)
(* the page-2 footer; page 1 carries no hint and no other right-aligned    *)
(* text of the generator.                                                  *)
C18_DuplexHint ==
    phase \in GenPhases =>
       /\ \A i \in 1..Len(HintDraws) :
             /\ HintDraws[i].page = 2 /\ HintDraws[i].op = "drawRightString"
             /\ HintDraws[i].a = << PAGE_WIDTH - 15 * mm, 10 * mm >>
             /\ HintDraws[i].k = 0
       /\ Hints = HintDraws /\ Len(HintDraws) <= 1
       /\ \A i \in 1..Len(log) :
             (log[i].op \in TextPaints /\ log[i].t = gen_content.PAGE_INFO.duplex_hint)
                => log[i-1].op = "drawString" /\ log[i-1].k = 0 /\ log[i-1].page = 2
       /\ Returned => Len(HintDraws) = 1

(* the compact edition is on its second page and has just drawn the hint *)
C18_Witness ==
    /\ phase = "gen2" /\ Running /\ page = 2 /\ Len(log) > 0
    /\ Last.op = "drawRightString" /\ Last.k = 0
    /\ Last.t = CONTENT_de.page_info.duplex_hint /\ Len(Footers) = 2

----------------------------------------------------------------------------
(* Fonts *)

(* C19: once register_fonts has returned, each of Fonts.title,             *)
(* Fonts.heading and Fonts.body names a registered family or a built-in    *)
(* one, and no setFont ends the run.                                       *)
C19_FontFallback ==
    phase # "start" =>
       /\ { Fonts.title, Fonts.heading, Fonts.body } \subseteq registered
       /\ raised # <<>> => raised.what # "KeyError"

----------------------------------------------------------------------------
(* Crop marks and bleed rectangles *)

(* the trim-box origins of the cards of page p of the running generator *)
CardsOnPage(p) ==
    LET pos == IF p = 1 THEN front_pos ELSE back_pos
    IN  { pos[i] : i \in 1..Len(pos) }

(* the segment with end points (x1, y1), (x2, y2), parallel to an axis,    *)
(* has a point strictly inside the rectangle box = <<x, y, w, h>>          *)
CrossesInterior(seg, box) ==
    LET lo_x == Min2(seg[1], seg[3])
        hi_x == Max2(seg[1], seg[3])
        lo_y == Min2(seg[2], seg[4])
        hi_y == Max2(seg[2], seg[4])
    IN  /\ Max2(lo_x, box[1]) <= Min2(hi_x, box[1] + box[3])
        /\ Max2(lo_y, box[2]) <= Min2(hi_y, box[2] + box[4])
        /\ IF lo_y = hi_y
           THEN /\ box[2] < lo_y /\ lo_y < box[2] + box[4]
                /\ \/ Max2(lo_x, box[1]) < Min2(hi_x, box[1] + box[3])
                   \/ (lo_x = hi_x /\ box[1] < lo_x /\ lo_x < box[1] + box[3])
           ELSE /\ lo_x = hi_x
                /\ box[1] < lo_x /\ lo_x < box[1] + box[3]
                /\ Max2(lo_y, box[2]) < Min2(hi_y, box[2] + box[4])

(* C20: in every document no crop mark of a card has a point strictly      *)
(* inside the bleed rectangle of any card of the same page, its own        *)
(* included; every background shape is drawn clipped to the bleed          *)
(* rectangle of its own card, so no background covers a mark.              *)
C20_MarksClearOfBleed ==
    phase \in GenPhases =>
       \A i \in 1..Len(log) :
          /\ log[i].op = "line" =>
                /\ log[i].a[1] = log[i].a[3] \/ log[i].a[2] = log[i].a[4]
                /\ <<log[i].x, log[i].y>> \in CardsOnPage(log[i].page)
                /\ \A pos \in CardsOnPage(log[i].page) :
                      ~CrossesInterior(log[i].a, BleedBox(pos))
          /\ (log[i].op \in { "rect", "drawPath", "circle" } /\ log[i].k # 0) =>
                log[i].clip = BleedBox(<<log[i].x, log[i].y>>)

(* the four fronts of the 4-card edition are drawn; a mark of the first    *)
(* card lies in the gap between it and the card to its right, touching     *)
(* the edge of its own bleed rectangle                                     *)
C20_Witness ==
    /\ phase = "gen4" /\ page = 1
    /\ Cardinality({ i \in 1..Len(log) : log[i].op = "line" }) = 32
    /\ \E i \in 1..Len(log) :
          /\ log[i].op = "line" /\ log[i].k = 1 /\ log[i].a[2] = log[i].a[4]
          /\ Min2(log[i].a[1], log[i].a[3]) = front_pos[1][1] + CARD_WIDTH + BLEED
          /\ Max2(log[i].a[1], log[i].a[3]) < front_pos[2][1] - BLEED

----------------------------------------------------------------------------
(* The state stack *)

(* the first line of the function of the source that holds line n *)
FunctionOf(n) ==
    CASE n \in 534..577 -> 534      \* draw_crop_marks
      [] n \in 584..648 -> 584      \* draw_front_background
      [] n \in 651..702 -> 651      \* draw_back_background
      [] n \in 705..757 -> 705      \* draw_title_card_background
      [] n \in 760..770 -> 760      \* draw_title_card
      [] n \in 773..829 -> 773      \* draw_title_card_back
      [] n \in 832..842 -> 832      \* draw_title_card_back_with_marks
      [] n \in 849..864 -> 849      \* draw_title
      [] n \in 867..923 -> 867      \* draw_values_table
      [] n \in 926..958 -> 926      \* draw_sections
      [] n \in 961..983 -> 961      \* draw_card_front
      [] n \in 986..996 -> 986      \* draw_card_back
      [] OTHER -> 0                 \* a generator

(* the saveState that the restoreState recorded at i pops *)
PushOf(i) ==
    CHOOSE j \in 1..(i - 1) :
       /\ log[j].op = "saveState" /\ log[j].depth = log[i].depth - 1
       /\ \A m \in (j + 1)..(i - 1) :
             ~(log[m].op = "saveState" /\ log[m].depth = log[i].depth - 1)

(* the functions that draw a face's background inside the clip *)
ClippedFunctions == { 584, 651, 705, 773 }

(* the calls that put a mark on the page, end a page or end the document   *)
DrawOps ==
    { "line", "drawString", "drawCentredString", "drawRightString",
      "showPage", "save" }

(* the calls the claim names: title, content text, crop marks, footer,     *)
(* showPage, save                                                          *)
Unclipped(e) ==
    \/ FunctionOf(e.src) \in { 849, 867, 926, 534 }
    \/ e.k = 0

(* C21 as stated: the stack is balanced, no restoreState runs on an empty  *)
(* stack, and at every title, content-text, crop-mark and footer draw, at  *)
(* showPage and at save the stack depth is 0 and no clip is in effect.     *)
C21_AsStated ==
    phase \in GenPhases =>
       /\ \A i \in 1..Len(log) :
             /\ log[i].op = "restoreState" =>
                   /\ log[i].depth >= 1
                   /\ FunctionOf(log[PushOf(i)].src) = FunctionOf(log[i].src)
             /\ (Unclipped(log[i]) /\ log[i].op \in DrawOps)
                   => log[i].depth = 0 /\ log[i].clip = <<>>
       /\ Returned => stack = <<>>

(* C21: every saveState is popped by a restoreState of the same function   *)
(* and card, no restoreState runs on an empty stack, and the stack is      *)
(* empty after each card face and at the end of the document; the title,   *)
(* the content text, the footer, showPage and save run at depth 0 with no  *)
(* clip; the crop marks are drawn with no clip at depth 1, inside the      *)
(* frame draw_crop_marks pushes at depth 0; a clip is in effect only       *)
(* inside the frame a card face pushes around its background function,     *)
(* and is the bleed rectangle of that card.                                *)
C21_BalancedStack ==
    phase \in GenPhases =>
       /\ \A i \in 1..Len(log) :
             /\ log[i].op = "restoreState" =>
                   /\ log[i].depth >= 1
                   /\ FunctionOf(log[PushOf(i)].src) = FunctionOf(log[i].src)
                   /\ log[PushOf(i)].k = log[i].k /\ log[PushOf(i)].page = log[i].page
             /\ (FunctionOf(log[i].src) \in { 849, 867, 926 } \/ log[i].k = 0)
                   => log[i].depth = 0 /\ log[i].clip = <<>>
             /\ FunctionOf(log[i].src) = 534 =>
                   /\ log[i].clip = <<>>
                   /\ log[i].depth = IF log[i].op = "saveState" THEN 0 ELSE 1
             /\ log[i].clip # <<>> =>
                   /\ log[i].depth >= 1
                   /\ log[i].clip = BleedBox(<<log[i].x, log[i].y>>)
                   /\ \/ FunctionOf(log[i].src) \in ClippedFunctions
                      \/ (log[i].op = "restoreState"
                          /\ FunctionOf(log[i].src) \in { 760, 832, 961, 986 })
       /\ CardDone => stack = <<>> /\ gs.clip = <<>>
       /\ Returned =>
             /\ stack = <<>>
             /\ Cardinality({ i \in 1..Len(log) : log[i].op = "saveState" })
                   = Cardinality({ i \in 1..Len(log) : log[i].op = "restoreState" })

(* a crop mark of the first card has just been drawn, unclipped, inside    *)
(* the frame of draw_crop_marks                                            *)
C21_Witness ==
    /\ phase = "gen4" /\ Len(log) > 0 /\ Last.op = "line" /\ Last.k = 1
    /\ Last.depth = 1 /\ Last.clip = <<>> /\ Len(stack) = 1

----------------------------------------------------------------------------
(* The shared content table *)

(* the entries of the returned record and the entries of the language      *)
(* table they are taken from                                               *)
SharedEntries ==
    [ CARD_2 |-> "card_2", CARD_3 |-> "card_3", CARD_4 |-> "card_4",
      BACK_TITLE |-> "back_title", BACK_SUBTITLE |-> "back_subtitle",
      TITLE_CARD_TITLE |-> "title_card_title",
      TITLE_CARD_SUBTITLE |-> "title_card_subtitle",
      GITHUB_URL |-> "github_url", GAME_DESCRIPTION |-> "game_description",
      ABOUT_TITLE |-> "about_title", PAGE_INFO |-> "page_info" ]

(* C22: after any number of get_content calls, made by the generators in   *)
(* any order, the shared CONTENT table is what the module defined: card_1  *)
(* of the language has no "values" key and no entry of either language has *)
(* changed; each call returned a CARD_1 that has the items of card_1 and   *)
(* "values" equal to the language's card_1_values, and the other entries   *)
(* of the language as they are; all calls returned the same record.        *)
C22_ContentUnchanged ==
    phase = "content" =>
       /\ shared_CONTENT = CONTENT
       /\ "values" \notin DOMAIN shared_CONTENT[LANGUAGE].card_1
       /\ \A i \in 1..Len(returned) :
             LET got == returned[i].content
                 lang == CONTENT[LANGUAGE]
             IN  /\ DOMAIN got.CARD_1 = DOMAIN lang.card_1 \cup { "values" }
                 /\ got.CARD_1.values = lang.card_1_values
                 /\ \A f \in DOMAIN lang.card_1 : got.CARD_1[f] = lang.card_1[f]
                 /\ DOMAIN got = DOMAIN SharedEntries \cup { "CARD_1" }
                 /\ \A f \in DOMAIN SharedEntries : got[f] = lang[SharedEntries[f]]
       /\ \A i, j \in 1..Len(returned) : returned[i].content = returned[j].content
       /\ Len(returned) > 0 => gen_content = returned[1].content

(* the three generators have each called get_content, the title card       *)
(* first and the 4-card edition last                                       *)
C22_Witness ==
    /\ phase = "content" /\ Len(returned) = 3
    /\ returned[1].by = "generate_title_card"
    /\ returned[2].by = "generate_2card_edition"
    /\ returned[3].by = "generate_4card_edition"
    /\ returned[3].content.CARD_1.values = CONTENT[LANGUAGE].card_1_values
    /\ shared_CONTENT = CONTENT

====
